---------------------------- MODULE Spec2Model ----------------------------
(***************************************************************************)
(* Model of the edge AI gateway (DamoMind/edge-ai-gateway):                *)
(*   - the streaming transcoders (Anthropic wire and Gemini wire),         *)
(*   - the Google access-token caches,                                     *)
(*   - the worker's fetch / handleChat dispatch,                           *)
(*   - the provider adapters' request building and response conversion.    *)
(* Text is a sequence of one-character strings; an upstream payload is a   *)
(* sequence of bytes, where the two bytes "m1","m2" encode the one         *)
(* non-ASCII character "E" and every other byte is the character itself.   *)
(***************************************************************************)
EXTENDS Integers, Sequences, FiniteSets, TLC

VARIABLES
    \* ---- streaming transcoder ----
    sKind,      \* which transcoder runs
    payload,    \* the bytes the upstream will deliver in total
    pos,        \* number of payload bytes already delivered
    buffer,     \* the transcoder's `buffer` (text of the unfinished line)
    pending,    \* bytes held back by a TextDecoder in stream mode
    out,        \* events enqueued on the output stream so far
    sClosed     \* the output stream has been closed

svars == <<sKind, payload, pos, buffer, pending, out, sClosed>>

VARIABLES
    \* ---- Google access-token cache ----
    tImpl,               \* "worker": getGoogleAccessToken and the module-level
                         \* cache; "provider": VertexProvider.getAccessToken
                         \* and the instance's accessToken / tokenExpiry
    now,                 \* Date.now(), in milliseconds
    cachedAccessToken,   \* the cached token (0: null / undefined)
    tokenExpiresAt,      \* the cached expiry instant (0: never set)
    tpc,                 \* per caller: where its call stands
    tRet,                \* per caller: the token its last call returned (0: none)
    tExch,               \* per caller: token-endpoint requests of its current call
    tSeen,               \* per caller: how its call's cache check went
    tResp,               \* per caller: the token-endpoint response it received
    issued,              \* number of tokens the token endpoint has issued
    nCalls,              \* calls made so far
    lastCaller,          \* the caller of the latest call (0: none yet)
    tLog                 \* the token endpoint's answers and when each arrived

tvars == <<tImpl, now, cachedAccessToken, tokenExpiresAt, tpc, tRet, tExch, tSeen,
           tResp, issued, nCalls, lastCaller, tLog>>

VARIABLES
    \* ---- one chat request through the worker ----
    env,         \* the names of the environment variables that are set
    aiProvider,  \* the value of AI_PROVIDER ("": unset)
    req,         \* the request
    cpc,         \* "received", "token", "upstream" or "done"
    via,         \* the adapter or function handleChat handed the request to
    calls,       \* the model requests sent upstream
    exchanges,   \* the requests sent to the token endpoint
    failed,      \* the error handleChat's promise rejected with
    resp,        \* the Response fetch resolved with
    thrown       \* the error fetch's promise rejected with

cvars == <<env, aiProvider, req, cpc, via, calls, exchanges, failed, resp, thrown>>

VARIABLES
    \* ---- one call of one adapter ----
    aReq,        \* the ChatCompletionRequest
    aUp,         \* the answer the upstream gives
    aOp,         \* the adapter that ran ("none": not yet)
    aBody,       \* the request body it sent
    aRes         \* what the call returned or threw

avars == <<aReq, aUp, aOp, aBody, aRes>>

VARIABLES
    \* ---- one streaming call, from the upstream's response to the end ----
    lKind,       \* the streaming call that runs
    lResp,       \* the upstream's response: its status and whether it has a body
    lpc,         \* "called", "streaming", "failed" or "idle"
    lRes,        \* what the call returned or threw
    lTransform,  \* a transcoder was created for the response body
    lUp,         \* the upstream body: "none", "open", "ended" or "cancelled"
    lOut,        \* the stream handed to the consumer: "none", "readable",
                 \* "closed" or "cancelled"
    lPump,       \* transformAnthropicStream's read loop: "none", "running"
                 \* or "stopped"
    lLeft,       \* chunks the upstream has still to deliver
    lEmitted,    \* events enqueued on the consumer's stream
    lReadsAfter, \* upstream chunks read after the consumer cancelled
    lDemand,     \* the consumer has a read() waiting on its stream
    lTaken,      \* events the consumer has read
    lUnasked     \* upstream chunks read while no read() of the consumer waited

lvars == <<lKind, lResp, lpc, lRes, lTransform, lUp, lOut, lPump, lLeft, lEmitted,
           lReadsAfter, lDemand, lTaken, lUnasked>>

VARIABLES
    \* ---- the usage block of one converted response ----
    uUp,         \* the usage the upstream reports
    uOp,         \* the conversion that ran ("none": not yet)
    uRes         \* the usage of the ChatResponse, or the error thrown

uvars == <<uUp, uOp, uRes>>

VARIABLES
    \* ---- the messages of one Anthropic-wire request ----
    mIn,         \* the messages of the ChatCompletionRequest
    mOp,         \* the translation that ran ("none": not yet)
    mOut,        \* the messages of the upstream body
    mSystem      \* the system field of the upstream body

mvars == <<mIn, mOp, mOut, mSystem>>

VARIABLES
    \* ---- one error made by BaseProvider.createError ----
    eIn,         \* the arguments: provider name, status, raw body, code
    eOp,         \* the call that ran ("none": not yet)
    eErr         \* the AIGatewayError made

evars == <<eIn, eOp, eErr>>

vars == <<svars, tvars, cvars, avars, lvars, uvars, mvars, evars>>

\* What a step of one part of the gateway leaves alone.
StreamFrame == UNCHANGED <<tvars, cvars, avars, lvars, uvars, mvars, evars>>

TokenFrame == UNCHANGED <<svars, cvars, avars, lvars, uvars, mvars, evars>>

ChatFrame == UNCHANGED <<svars, tvars, avars, lvars, uvars, mvars, evars>>

AdapterFrame == UNCHANGED <<svars, tvars, cvars, lvars, uvars, mvars, evars>>

LifeFrame == UNCHANGED <<svars, tvars, cvars, avars, uvars, mvars, evars>>

UsageFrame == UNCHANGED <<svars, tvars, cvars, avars, lvars, mvars, evars>>

MessagesFrame == UNCHANGED <<svars, tvars, cvars, avars, lvars, uvars, evars>>

ErrorsFrame == UNCHANGED <<svars, tvars, cvars, avars, lvars, uvars, mvars>>

-----------------------------------------------------------------------------
(* Generic sequence helpers                                                *)

Drop(s, n) == IF n >= Len(s) THEN <<>> ELSE SubSeq(s, n + 1, Len(s))

Take(s, n) == IF n >= Len(s) THEN s ELSE SubSeq(s, 1, n)

StartsWith(s, p) == Len(s) >= Len(p) /\ SubSeq(s, 1, Len(p)) = p

NL == "\n"

\* String.prototype.split('\n'): the pieces between the newlines, at least one.
RECURSIVE SplitFrom(_, _)
SplitFrom(cur, rest) ==
    IF rest = <<>> THEN << cur >>
    ELSE IF Head(rest) = NL THEN << cur >> \o SplitFrom(<<>>, Tail(rest))
    ELSE SplitFrom(Append(cur, Head(rest)), Tail(rest))

SplitLines(text) == SplitFrom(<<>>, text)

IsSpace(c) == c \in {" ", "\r"}

\* String.prototype.trim()
RECURSIVE TrimLeft(_)
TrimLeft(s) == IF s /= <<>> /\ IsSpace(Head(s)) THEN TrimLeft(Tail(s)) ELSE s

RECURSIVE TrimRight(_)
TrimRight(s) ==
    IF s /= <<>> /\ IsSpace(s[Len(s)]) THEN TrimRight(SubSeq(s, 1, Len(s) - 1)) ELSE s

Trim(s) == TrimRight(TrimLeft(s))

-----------------------------------------------------------------------------
(* Bytes and text                                                          *)

Replacement == "?"     \* U+FFFD, what a decoder emits for a malformed sequence

\* TextDecoder.decode(bytes) without {stream: true}: every call decodes its
\* bytes on their own, so half of a two-byte character becomes U+FFFD.
RECURSIVE DecodeBytes(_)
DecodeBytes(bs) ==
    IF bs = <<>> THEN <<>>
    ELSE IF Head(bs) = "m1" /\ Len(bs) >= 2 /\ bs[2] = "m2"
         THEN << "E" >> \o DecodeBytes(Drop(bs, 2))
    ELSE IF Head(bs) \in {"m1", "m2"}
         THEN << Replacement >> \o DecodeBytes(Tail(bs))
    ELSE << Head(bs) >> \o DecodeBytes(Tail(bs))

\* TextDecoder.decode(bytes, {stream: true}): an incomplete character at the
\* end of the chunk is kept for the next call.
DecodeStream(held, bs) ==
    LET all  == held \o bs
        keep == IF all /= <<>> /\ all[Len(all)] = "m1" THEN 1 ELSE 0
    IN  [text    |-> DecodeBytes(Take(all, Len(all) - keep)),
         pending |-> Drop(all, Len(all) - keep)]

-----------------------------------------------------------------------------
(* JSON payloads of the upstream events.  An event object is written       *)
(*   { <tag> <text characters> }                                           *)
(* tag "D": {type: content_block_delta, delta: {text}}                     *)
(* tag "S": {type: message_stop}                                           *)
(* tag "P": {type: ping}            (any other Anthropic event)            *)
(* tag "G": {candidates: [{content: {parts: [{text}]}}]}                   *)

Tags == {"D", "S", "P", "G"}

TextChars == {"x", "y", "E", Replacement}

DataPrefix == << "d", "a", "t", "a", ":", " " >>

DoneLiteral == << "[", "D", "O", "N", "E", "]" >>

NoEvent == [ok |-> FALSE, type |-> "none", deltaText |-> <<>>, candText |-> <<>>]

\* JSON.parse: FALSE in `ok` stands for the SyntaxError it throws.  Leading
\* and trailing white space is allowed by the JSON grammar.
ParseJSON(str) ==
    LET s == Trim(str)
    IN  IF /\ Len(s) >= 3
           /\ s[1] = "{"
           /\ s[Len(s)] = "}"
           /\ s[2] \in Tags
           /\ \A i \in 3..(Len(s) - 1) : s[i] \in TextChars
        THEN LET txt == SubSeq(s, 3, Len(s) - 1)
             IN  [ok        |-> TRUE,
                  type      |-> CASE s[2] = "D" -> "content_block_delta"
                                  [] s[2] = "S" -> "message_stop"
                                  [] s[2] = "P" -> "ping"
                                  [] OTHER      -> "none",
                  deltaText |-> IF s[2] = "D" THEN txt ELSE <<>>,
                  candText  |-> IF s[2] = "G" THEN txt ELSE <<>>]
        ELSE NoEvent

\* A canonical chunk.  Its id and created fields are read from the clock and
\* are left out: they differ between any two runs.
DeltaChunk(text) == [kind |-> "chunk", content |-> text, finish_reason |-> "null"]

StopChunk == [kind |-> "chunk", content |-> <<>>, finish_reason |-> "stop"]

DoneEvent == [kind |-> "done", content |-> <<>>, finish_reason |-> "null"]


\* s.flatMap(F): the events of every line, in order.
FlatMap(F(_), ss) ==
    LET f[i \in 0..Len(ss)] == IF i = 0 THEN <<>> ELSE f[i - 1] \o F(ss[i])
    IN  f[Len(ss)]

AllButLast(ss) == SubSeq(ss, 1, Len(ss) - 1)

-----------------------------------------------------------------------------
(* transformAnthropicStream (AzureFoundryProvider)                         *)

\* AnthropicLine, but closing the completion on every event that is not a
\* content_block_delta.
AnthropicLineStopsOnAny(line) ==
    IF ~StartsWith(line, DataPrefix) THEN <<>>
    ELSE LET data  == Drop(line, 6)
             event == ParseJSON(data)
         IN  IF data = DoneLiteral THEN <<>>
             ELSE IF ~event.ok THEN <<>>
             ELSE IF event.type = "content_block_delta" /\ event.deltaText /= <<>>
             THEN << DeltaChunk(event.deltaText) >>
             ELSE << StopChunk >>

\* The body of `for (const line of lines)`: the chunks one line enqueues.
AnthropicLine(line) ==
    IF ~StartsWith(line, DataPrefix) THEN <<>>
    ELSE LET data  == Drop(line, 6)
             event == ParseJSON(data)
         IN  IF data = DoneLiteral THEN <<>>
             ELSE IF ~event.ok THEN <<>>
             ELSE (IF event.type = "content_block_delta" /\ event.deltaText /= <<>>
                   THEN << DeltaChunk(event.deltaText) >> ELSE <<>>)
                  \o
                  (IF event.type = "message_stop" THEN << StopChunk >> ELSE <<>>)

\* One `reader.read()` that returned a chunk: decode in stream mode, append to
\* the buffer, keep the last piece, transcode the complete lines.
AnthropicRead(st, chunk) ==
    LET d     == DecodeStream(st.pending, chunk)
        lines == SplitLines(st.buffer \o d.text)
    IN  [buffer  |-> lines[Len(lines)],
         pending |-> d.pending,
         out     |-> st.out \o FlatMap(AnthropicLine, AllButLast(lines))]

\* `reader.read()` returned done: the sentinel is enqueued and the stream
\* closed; the buffer is not looked at again.
AnthropicDone(st) ==
    [buffer |-> st.buffer, pending |-> st.pending, out |-> Append(st.out, DoneEvent)]

-----------------------------------------------------------------------------
(* The worker's Gemini transformers: callVertexAIStreaming and             *)
(* callGeminiAPIStreaming hold the same TransformStream.                   *)

GeminiContent(jsonStr) ==
    LET data == ParseJSON(jsonStr)
    IN  IF data.ok /\ data.candText /= <<>> THEN << DeltaChunk(data.candText) >> ELSE <<>>

WorkerGeminiLine(line) ==
    IF ~StartsWith(line, DataPrefix) THEN <<>>
    ELSE LET jsonStr == Trim(Drop(line, 6))
         IN  IF jsonStr = <<>> THEN <<>> ELSE GeminiContent(jsonStr)

\* transform(chunk, controller)
WorkerGeminiTransform(st, chunk) ==
    LET text  == DecodeBytes(chunk)
        lines == SplitLines(st.buffer \o text)
    IN  [buffer  |-> lines[Len(lines)],
         pending |-> st.pending,
         out     |-> st.out \o FlatMap(WorkerGeminiLine, AllButLast(lines))]

\* flush(controller)
WorkerGeminiFlush(st) ==
    LET rest == IF Trim(st.buffer) /= <<>> /\ StartsWith(st.buffer, DataPrefix)
                THEN GeminiContent(Trim(Drop(st.buffer, 6)))
                ELSE <<>>
    IN  [buffer  |-> st.buffer,
         pending |-> st.pending,
         out     |-> (st.out \o rest) \o << DoneEvent >>]

-----------------------------------------------------------------------------
(* The transformer inside VertexProvider.chatStream: no buffer, no flush.  *)

ProviderGeminiLine(line) ==
    IF ~StartsWith(line, DataPrefix) THEN <<>> ELSE GeminiContent(Drop(line, 6))

\* transform(chunk, controller): every piece of the chunk is treated as a line.
ProviderGeminiTransform(st, chunk) ==
    LET lines == SplitLines(DecodeBytes(chunk))
    IN  [buffer  |-> st.buffer,
         pending |-> st.pending,
         out     |-> st.out \o FlatMap(ProviderGeminiLine, lines)]

\* The TransformStream has no flush: closing the upstream closes the output
\* and enqueues nothing.
ProviderGeminiClose(st) == st


-----------------------------------------------------------------------------
(* The upstream payloads and the streaming specification                   *)

MaxLines == 2          \* lines of an upstream payload

Kinds == {"anthropic", "vertexWorker", "geminiWorker", "vertexProvider"}

Obj(tag, text) == DataPrefix \o << "{", tag >> \o text \o << "}" >>

AnthropicWireLines ==
    { Obj("D", << "x" >>), Obj("D", << "m1", "m2" >>), Obj("D", <<>>), Obj("S", <<>>),
      Obj("P", <<>>), DataPrefix \o DoneLiteral, <<>> }

GeminiWireLines ==
    { Obj("G", << "x" >>), Obj("G", << "m1", "m2" >>), Obj("G", <<>>),
      << "x" >>, <<>> }

WireLines(kind) == IF kind = "anthropic" THEN AnthropicWireLines ELSE GeminiWireLines

\* The lines joined by newlines; the last line ends with one when `closed`.
RECURSIVE Join(_, _)
Join(ls, closed) ==
    IF ls = <<>> THEN <<>>
    ELSE IF Len(ls) = 1 THEN Head(ls) \o (IF closed THEN << NL >> ELSE <<>>)
    ELSE Head(ls) \o << NL >> \o Join(Tail(ls), closed)

Payloads(kind) ==
    { Join(ls, closed) : ls \in UNION { [1..n -> WireLines(kind)] : n \in 1..MaxLines },
                         closed \in BOOLEAN } \ { <<>> }

EmptyState == [buffer |-> <<>>, pending |-> <<>>, out |-> <<>>]

TState == [buffer |-> buffer, pending |-> pending, out |-> out]

StreamInit ==
    /\ sKind \in Kinds
    /\ payload \in Payloads(sKind)
    /\ pos = 0
    /\ buffer = <<>>
    /\ pending = <<>>
    /\ out = <<>>
    /\ sClosed = FALSE

StreamIdle ==
    /\ sKind = "anthropic"
    /\ payload = <<>>
    /\ pos = 0
    /\ buffer = <<>>
    /\ pending = <<>>
    /\ out = <<>>
    /\ sClosed = TRUE

\* The upstream delivers the next k bytes to the transcoder, for any k.
AnthropicStreamRead ==
    /\ sKind = "anthropic"
    /\ ~sClosed
    /\ pos < Len(payload)
    /\ \E k \in 1..(Len(payload) - pos) :
          LET st == AnthropicRead(TState, SubSeq(payload, pos + 1, pos + k))
          IN  /\ pos' = pos + k
              /\ buffer' = st.buffer
              /\ pending' = st.pending
              /\ out' = st.out
    /\ UNCHANGED <<sKind, payload, sClosed>>
    /\ StreamFrame

\* The upstream closes.
AnthropicStreamDone ==
    /\ sKind = "anthropic"
    /\ ~sClosed
    /\ pos = Len(payload)
    /\ LET st == AnthropicDone(TState)
       IN  /\ buffer' = st.buffer
           /\ pending' = st.pending
           /\ out' = st.out
    /\ sClosed' = TRUE
    /\ UNCHANGED <<sKind, payload, pos>>
    /\ StreamFrame

VertexAIStreamingTransform ==
    /\ sKind = "vertexWorker"
    /\ ~sClosed
    /\ pos < Len(payload)
    /\ \E k \in 1..(Len(payload) - pos) :
          LET st == WorkerGeminiTransform(TState, SubSeq(payload, pos + 1, pos + k))
          IN  /\ pos' = pos + k
              /\ buffer' = st.buffer
              /\ pending' = st.pending
              /\ out' = st.out
    /\ UNCHANGED <<sKind, payload, sClosed>>
    /\ StreamFrame

VertexAIStreamingFlush ==
    /\ sKind = "vertexWorker"
    /\ ~sClosed
    /\ pos = Len(payload)
    /\ LET st == WorkerGeminiFlush(TState)
       IN  /\ buffer' = st.buffer
           /\ pending' = st.pending
           /\ out' = st.out
    /\ sClosed' = TRUE
    /\ UNCHANGED <<sKind, payload, pos>>
    /\ StreamFrame

GeminiAPIStreamingTransform ==
    /\ sKind = "geminiWorker"
    /\ ~sClosed
    /\ pos < Len(payload)
    /\ \E k \in 1..(Len(payload) - pos) :
          LET st == WorkerGeminiTransform(TState, SubSeq(payload, pos + 1, pos + k))
          IN  /\ pos' = pos + k
              /\ buffer' = st.buffer
              /\ pending' = st.pending
              /\ out' = st.out
    /\ UNCHANGED <<sKind, payload, sClosed>>
    /\ StreamFrame

GeminiAPIStreamingFlush ==
    /\ sKind = "geminiWorker"
    /\ ~sClosed
    /\ pos = Len(payload)
    /\ LET st == WorkerGeminiFlush(TState)
       IN  /\ buffer' = st.buffer
           /\ pending' = st.pending
           /\ out' = st.out
    /\ sClosed' = TRUE
    /\ UNCHANGED <<sKind, payload, pos>>
    /\ StreamFrame

VertexProviderTransform ==
    /\ sKind = "vertexProvider"
    /\ ~sClosed
    /\ pos < Len(payload)
    /\ \E k \in 1..(Len(payload) - pos) :
          LET st == ProviderGeminiTransform(TState, SubSeq(payload, pos + 1, pos + k))
          IN  /\ pos' = pos + k
              /\ buffer' = st.buffer
              /\ pending' = st.pending
              /\ out' = st.out
    /\ UNCHANGED <<sKind, payload, sClosed>>
    /\ StreamFrame

VertexProviderClose ==
    /\ sKind = "vertexProvider"
    /\ ~sClosed
    /\ pos = Len(payload)
    /\ LET st == ProviderGeminiClose(TState)
       IN  /\ buffer' = st.buffer
           /\ pending' = st.pending
           /\ out' = st.out
    /\ sClosed' = TRUE
    /\ UNCHANGED <<sKind, payload, pos>>
    /\ StreamFrame

StreamNext ==
    \/ AnthropicStreamRead
    \/ AnthropicStreamDone
    \/ VertexAIStreamingTransform
    \/ VertexAIStreamingFlush
    \/ GeminiAPIStreamingTransform
    \/ GeminiAPIStreamingFlush
    \/ VertexProviderTransform
    \/ VertexProviderClose

\* The whole payload as one unbroken chunk, then the close.
OneShot(kind, bytes) ==
    CASE kind = "anthropic"      -> AnthropicDone(AnthropicRead(EmptyState, bytes)).out
      [] kind = "vertexProvider" -> ProviderGeminiClose(ProviderGeminiTransform(EmptyState, bytes)).out
      [] OTHER                   -> WorkerGeminiFlush(WorkerGeminiTransform(EmptyState, bytes)).out

-----------------------------------------------------------------------------
(* Credential lifecycle: getGoogleAccessToken (worker) and                 *)
(* VertexProvider.getAccessToken                                           *)

NCallers == 2          \* requests that may be in flight together
MaxCalls == 3          \* calls of the token function in one behaviour
MaxTicks == 3          \* clock ticks in one behaviour

TickMs == 300 * 1000       \* the clock advances in steps of this many milliseconds
StartMs == 2 * TickMs      \* Date.now() when the worker starts

SafetyBufferMs == 300000

Callers == 1..NCallers

\* expires_in values (seconds) the token endpoint may answer with
ExpiresIn == {600, 900}

NoResponse == [access_token |-> 0, expires_in |-> 0]

\* How a call's cache check went: served from the cache, nothing stored, or
\* a stored token refused.
Seen(valid) ==
    IF valid THEN "hit" ELSE IF cachedAccessToken = 0 THEN "empty" ELSE "refused"

\* The cache check without its safety buffer.
WorkerTokenValidNoBuffer == cachedAccessToken /= 0 /\ now < tokenExpiresAt

\* `cachedAccessToken && Date.now() < tokenExpiresAt - 300000`
WorkerTokenValid ==
    cachedAccessToken /= 0 /\ now < tokenExpiresAt - SafetyBufferMs

\* `this.accessToken && this.tokenExpiry && Date.now() < this.tokenExpiry - 300000`
ProviderTokenValid ==
    cachedAccessToken /= 0 /\ tokenExpiresAt /= 0 /\ now < tokenExpiresAt - SafetyBufferMs

TokenInit ==
    /\ tImpl \in {"worker", "provider"}
    /\ now = StartMs
    /\ cachedAccessToken = 0
    /\ tokenExpiresAt = 0
    /\ tpc = [p \in Callers |-> "idle"]
    /\ tRet = [p \in Callers |-> 0]
    /\ tExch = [p \in Callers |-> 0]
    /\ tSeen = [p \in Callers |-> "none"]
    /\ lastCaller = 0
    /\ tResp = [p \in Callers |-> NoResponse]
    /\ issued = 0
    /\ nCalls = 0
    /\ tLog = <<>>

TokenIdle ==
    /\ tImpl = "worker"
    /\ now = StartMs
    /\ cachedAccessToken = 0
    /\ tokenExpiresAt = 0
    /\ tpc = [p \in Callers |-> "idle"]
    /\ tRet = [p \in Callers |-> 0]
    /\ tExch = [p \in Callers |-> 0]
    /\ tSeen = [p \in Callers |-> "none"]
    /\ lastCaller = 0
    /\ tResp = [p \in Callers |-> NoResponse]
    /\ issued = 0
    /\ nCalls = 0
    /\ tLog = <<>>

\* A call may start when the caller's previous call has ended.
CanCall(p) == tpc[p] \in {"idle", "done", "failed"} /\ nCalls < MaxCalls

\* getGoogleAccessToken up to its first await: the cache check, and on a hit
\* the return of the cached token.
GetGoogleAccessToken(p) ==
    /\ tImpl = "worker"
    /\ CanCall(p)
    /\ nCalls' = nCalls + 1
    /\ lastCaller' = p
    /\ tSeen' = [tSeen EXCEPT ![p] = Seen(WorkerTokenValid)]
    /\ tExch' = [tExch EXCEPT ![p] = 0]
    /\ tResp' = [tResp EXCEPT ![p] = NoResponse]
    /\ IF WorkerTokenValid
       THEN /\ tpc' = [tpc EXCEPT ![p] = "done"]
            /\ tRet' = [tRet EXCEPT ![p] = cachedAccessToken]
       ELSE /\ tpc' = [tpc EXCEPT ![p] = "signing"]
            /\ tRet' = [tRet EXCEPT ![p] = 0]
    /\ UNCHANGED <<tImpl, now, cachedAccessToken, tokenExpiresAt, issued>>
    /\ tLog' = tLog
    /\ TokenFrame

\* VertexProvider.getAccessToken up to its first await.
ProviderGetAccessToken(p) ==
    /\ tImpl = "provider"
    /\ CanCall(p)
    /\ nCalls' = nCalls + 1
    /\ lastCaller' = p
    /\ tSeen' = [tSeen EXCEPT ![p] = Seen(ProviderTokenValid)]
    /\ tExch' = [tExch EXCEPT ![p] = 0]
    /\ tResp' = [tResp EXCEPT ![p] = NoResponse]
    /\ IF ProviderTokenValid
       THEN /\ tpc' = [tpc EXCEPT ![p] = "done"]
            /\ tRet' = [tRet EXCEPT ![p] = cachedAccessToken]
       ELSE /\ tpc' = [tpc EXCEPT ![p] = "signing"]
            /\ tRet' = [tRet EXCEPT ![p] = 0]
    /\ UNCHANGED <<tImpl, now, cachedAccessToken, tokenExpiresAt, issued>>
    /\ tLog' = tLog
    /\ TokenFrame

\* The JWT is built and signed (JSON.parse of the key file, importKey, sign),
\* and the token request is sent.
SignAndSend(p) ==
    /\ tpc[p] = "signing"
    /\ tpc' = [tpc EXCEPT ![p] = "exchanging"]
    /\ tExch' = [tExch EXCEPT ![p] = tExch[p] + 1]
    /\ UNCHANGED <<tImpl, now, cachedAccessToken, tokenExpiresAt, tRet, tSeen, tResp,
                   issued, nCalls, lastCaller>>
    /\ tLog' = tLog
    /\ TokenFrame

\* A malformed key file or key, or a signing failure: the call throws before
\* any request is sent.
SignFails(p) ==
    /\ tpc[p] = "signing"
    /\ tpc' = [tpc EXCEPT ![p] = "failed"]
    /\ UNCHANGED <<tImpl, now, cachedAccessToken, tokenExpiresAt, tRet, tExch, tSeen,
                   tResp, issued, nCalls, lastCaller>>
    /\ tLog' = tLog
    /\ TokenFrame

\* ExchangeOk, but keeping a token some other call has stored meanwhile.
ExchangeOkKeepFirst(p) ==
    /\ tpc[p] = "exchanging"
    /\ \E e \in ExpiresIn :
          LET data == [access_token |-> issued + 1, expires_in |-> e]
          IN  /\ issued' = issued + 1
              /\ tResp' = [tResp EXCEPT ![p] = data]
              /\ tLog' = Append(tLog, [access_token |-> data.access_token,
                                       expires_in |-> data.expires_in, at |-> now])
              /\ IF cachedAccessToken = 0 \/ tSeen[p] = "refused"
                 THEN /\ cachedAccessToken' = data.access_token
                      /\ tokenExpiresAt' = now + data.expires_in * 1000
                 ELSE UNCHANGED <<cachedAccessToken, tokenExpiresAt>>
              /\ tRet' = [tRet EXCEPT ![p] = cachedAccessToken']
    /\ tpc' = [tpc EXCEPT ![p] = "done"]
    /\ UNCHANGED <<tImpl, now, tExch, tSeen, nCalls, lastCaller>>
    /\ TokenFrame

\* ExchangeOk, but never moving the stored expiry backwards.
ExchangeOkLatestExpiry(p) ==
    /\ tpc[p] = "exchanging"
    /\ \E e \in ExpiresIn :
          LET data == [access_token |-> issued + 1, expires_in |-> e]
              expiry == now + data.expires_in * 1000
          IN  /\ issued' = issued + 1
              /\ tResp' = [tResp EXCEPT ![p] = data]
              /\ tLog' = Append(tLog, [access_token |-> data.access_token,
                                       expires_in |-> data.expires_in, at |-> now])
              /\ cachedAccessToken' = data.access_token
              /\ tokenExpiresAt' = IF expiry > tokenExpiresAt THEN expiry ELSE tokenExpiresAt
              /\ tRet' = [tRet EXCEPT ![p] = data.access_token]
    /\ tpc' = [tpc EXCEPT ![p] = "done"]
    /\ UNCHANGED <<tImpl, now, tExch, tSeen, nCalls, lastCaller>>
    /\ TokenFrame

\* The token endpoint answers 200 with a fresh token; the two cache fields
\* are assigned with no await between them and the new token is returned.
ExchangeOk(p) ==
    /\ tpc[p] = "exchanging"
    /\ \E e \in ExpiresIn :
          LET data == [access_token |-> issued + 1, expires_in |-> e]
          IN  /\ issued' = issued + 1
              /\ tResp' = [tResp EXCEPT ![p] = data]
              /\ tLog' = Append(tLog, [access_token |-> data.access_token,
                                       expires_in |-> data.expires_in, at |-> now])
              /\ cachedAccessToken' = data.access_token
              /\ tokenExpiresAt' = now + data.expires_in * 1000
              /\ tRet' = [tRet EXCEPT ![p] = data.access_token]
    /\ tpc' = [tpc EXCEPT ![p] = "done"]
    /\ UNCHANGED <<tImpl, now, tExch, tSeen, nCalls, lastCaller>>
    /\ TokenFrame

\* The token endpoint answers with a non-success status: the call throws.
ExchangeFails(p) ==
    /\ tpc[p] = "exchanging"
    /\ tpc' = [tpc EXCEPT ![p] = "failed"]
    /\ UNCHANGED <<tImpl, now, cachedAccessToken, tokenExpiresAt, tRet, tExch, tSeen,
                   tResp, issued, nCalls, lastCaller>>
    /\ tLog' = tLog
    /\ TokenFrame

\* Time passes.
Tick ==
    /\ now < StartMs + MaxTicks * TickMs
    /\ now' = now + TickMs
    /\ UNCHANGED <<tImpl, cachedAccessToken, tokenExpiresAt, tpc, tRet, tExch, tSeen,
                   tResp, issued, nCalls, lastCaller>>
    /\ tLog' = tLog
    /\ TokenFrame

TokenNext ==
    \/ \E p \in Callers : GetGoogleAccessToken(p)
    \/ \E p \in Callers : ProviderGetAccessToken(p)
    \/ \E p \in Callers : SignAndSend(p)
    \/ \E p \in Callers : SignFails(p)
    \/ \E p \in Callers : ExchangeOk(p)
    \/ \E p \in Callers : ExchangeFails(p)
    \/ Tick

-----------------------------------------------------------------------------
(* The worker: one chat request through fetch and handleChat               *)

MaxUnset == 1          \* environments leave at most this many variables unset

\* The variables of Env that the chat path reads as credentials or gates.
\* The optional ones with a default (regions, default models, base URLs) are
\* left unset.
EnvVars ==
    {"CLIENT_API_KEY", "REQUIRE_CLIENT_ID", "OPENAI_API_KEY",
     "AZURE_ENDPOINT", "AZURE_API_KEY",
     "AZURE_FOUNDRY_ENDPOINT", "AZURE_FOUNDRY_API_KEY",
     "CF_ACCOUNT_ID", "CF_API_TOKEN",
     "GCP_PROJECT_ID", "GCP_SERVICE_ACCOUNT_JSON", "VERTEX_API_KEY",
     "GEMINI_API_KEY"}

Envs == { S \in SUBSET EnvVars : Cardinality(EnvVars \ S) <= MaxUnset }

\* Values of AI_PROVIDER: unset, the five provider types, and a name that is
\* none of them.
AIProviders == {"", "azure", "azure-foundry", "openai", "cloudflare", "vertex", "bedrock"}

\* ---- model names, as sequences of characters ----

NoModel == [set |-> FALSE, text |-> <<>>]

Model(text) == [set |-> TRUE, text |-> text]

Slash == "/"

OpenAIPrefix == <<"o","p","e","n","a","i">>
GeminiPrefix == <<"g","e","m","i","n","i">>
VertexPrefix == <<"v","e","r","t","e","x">>
AzurePrefix == <<"a","z","u","r","e">>
FoundryPrefix == <<"f","o","u","n","d","r","y">>
CloudflarePrefix == <<"c","l","o","u","d","f","l","a","r","e">>
VertexClaudePrefix == <<"v","e","r","t","e","x","-","c","l","a","u","d","e">>
AnthropicPrefix == <<"a","n","t","h","r","o","p","i","c">>

Gpt4oMini == <<"g","p","t","-","4","o","-","m","i","n","i">>
Claude3 == <<"c","l","a","u","d","e","-","3">>
Flash == <<"f","l","a","s","h">>

\* The model strings requests carry.
ModelTexts ==
    { OpenAIPrefix \o <<Slash>> \o Gpt4oMini,
      <<"O","p","e","n","A","I">> \o <<Slash>> \o Gpt4oMini,
      OpenAIPrefix \o <<Slash>>,
      OpenAIPrefix,
      GeminiPrefix \o <<Slash>> \o Flash,
      VertexPrefix \o <<Slash>> \o <<"a">> \o <<Slash>> \o <<"b">>,
      AzurePrefix \o <<Slash>> \o Gpt4oMini,
      FoundryPrefix \o <<Slash>> \o Claude3,
      CloudflarePrefix \o <<Slash>> \o <<"@","c","f">>,
      VertexClaudePrefix \o <<Slash>> \o Claude3,
      <<"A","n","t","h","r","o","p","i","c">> \o <<Slash>> \o Claude3,
      <<"x">> \o <<Slash>> \o Gpt4oMini,
      Gpt4oMini }

Models == {NoModel} \cup { Model(t) : t \in ModelTexts }

\* String.prototype.toLowerCase, on the letters the requests use.
LowerCase(c) ==
    CASE c = "O" -> "o"
      [] c = "A" -> "a"
      [] c = "I" -> "i"
      [] c = "G" -> "g"
      [] c = "P" -> "p"
      [] c = "T" -> "t"
      [] c = "C" -> "c"
      [] OTHER -> c

ToLowerCase(str) == [i \in 1..Len(str) |-> LowerCase(str[i])]

\* Index of the first "/" of str, 0 if there is none.
RECURSIVE IndexOfSlash(_, _)
IndexOfSlash(str, i) ==
    IF i > Len(str) THEN 0
    ELSE IF str[i] = Slash THEN i
    ELSE IndexOfSlash(str, i + 1)

Prefixes ==
    {GeminiPrefix, VertexPrefix, AzurePrefix, FoundryPrefix, OpenAIPrefix,
     CloudflarePrefix, VertexClaudePrefix, AnthropicPrefix}

\* providerMap of parseModelPrefix
providerMap(prefix) ==
    CASE prefix = GeminiPrefix -> "gemini-direct"
      [] prefix = VertexPrefix -> "gemini-direct"
      [] prefix = AzurePrefix -> "azure-foundry"
      [] prefix = FoundryPrefix -> "azure-foundry"
      [] prefix = OpenAIPrefix -> "openai"
      [] prefix = CloudflarePrefix -> "cloudflare"
      [] prefix = VertexClaudePrefix -> "vertex-anthropic"
      [] prefix = AnthropicPrefix -> "vertex-anthropic"
      [] OTHER -> "null"

\* parseModelPrefix forwarding the model string as it came.
parseModelPrefixUnstripped(model) ==
    IF ~model.set \/ model.text = <<>> THEN [provider |-> "null", model |-> <<>>]
    ELSE LET k == IndexOfSlash(model.text, 1)
             prefix == ToLowerCase(Take(model.text, k - 1))
         IN  IF k > 0 /\ prefix \in Prefixes
             THEN [provider |-> providerMap(prefix), model |-> model.text]
             ELSE [provider |-> "null", model |-> model.text]

\* parseModelPrefix.  The pattern is anchored at the start, its alternatives
\* hold no "/", and "/" must follow: it matches exactly when the text before
\* the first "/" is, ignoring case, one of the prefixes.  provider "null"
\* stands for null.
parseModelPrefix(model) ==
    IF ~model.set \/ model.text = <<>> THEN [provider |-> "null", model |-> <<>>]
    ELSE LET k == IndexOfSlash(model.text, 1)
             prefix == ToLowerCase(Take(model.text, k - 1))
         IN  IF k > 0 /\ prefix \in Prefixes
             THEN [provider |-> providerMap(prefix), model |-> Drop(model.text, k)]
             ELSE [provider |-> "null", model |-> model.text]

\* ---- requests and responses ----

Methods == {"POST", "OPTIONS", "PUT"}

\* What the Authorization header holds, or "binding" for a request that
\* carries a cf-worker header or is addressed to the host 'internal'.
Auths == {"absent", "match", "mismatch", "binding"}

\* A message's role: not a string (or missing), the empty string, or a name.
RoleValues ==
    { [isString |-> FALSE, text |-> ""], [isString |-> TRUE, text |-> ""],
      [isString |-> TRUE, text |-> "user"] }

\* What a message's content is: missing, a number, a string or an array.
ContentValues == {"undefined", "number", "string", "array"}

MessageValues == [role : RoleValues, content : ContentValues]

GoodMessage == [role |-> [isString |-> TRUE, text |-> "user"], content |-> "string"]

\* The message lists: none, one message of any shape, and a good message
\* followed by a message of any shape.
MessageLists ==
    { <<>> } \cup { <<m>> : m \in MessageValues }
             \cup { <<GoodMessage, m>> : m \in MessageValues }

\* The body: not JSON ("invalidJson"), JSON that is no object ("notObject"),
\* an object whose messages is no array ("noArray"), or an object with a
\* message list.
Bodies ==
    [kind : {"invalidJson", "notObject", "noArray"}, messages : { <<>> }]
    \cup [kind : {"object"}, messages : MessageLists]

ValidBody == [kind |-> "object", messages |-> <<GoodMessage>>]

Requests ==
    [method : {"POST"}, auth : Auths, clientId : BOOLEAN, body : {ValidBody},
     model : Models, stream : BOOLEAN]
    \cup
    [method : {"POST"}, auth : Auths, clientId : BOOLEAN,
     body : Bodies \ {ValidBody}, model : {NoModel}, stream : {FALSE}]
    \cup
    [method : Methods \ {"POST"}, auth : {"absent"}, clientId : {FALSE},
     body : {ValidBody}, model : {NoModel}, stream : {FALSE}]

NoResponseYet == [kind |-> "none", status |-> 0, error |-> ""]

NothingThrown == [kind |-> "none", status |-> 0, code |-> "", message |-> ""]

NoDispatch == [callee |-> "none", model |-> NoModel, stream |-> FALSE]

\* errorResponse: status and the body {error: message}
errorResponse(message, status) == [kind |-> "error", status |-> status, error |-> message]

\* jsonResponse / streamResponse of a completion
jsonResponse == [kind |-> "json", status |-> 200, error |-> ""]

streamResponse == [kind |-> "stream", status |-> 200, error |-> ""]

preflightResponse == [kind |-> "empty", status |-> 200, error |-> ""]

\* new AIGatewayError(message, {status, code}): status defaults to 500
AIGatewayError(message, status, code) ==
    [kind |-> "AIGatewayError", status |-> IF status = 0 THEN 500 ELSE status,
     code |-> code, message |-> message]

\* statusToErrorCode without its test for 403.
statusToErrorCodeOnly401(status) ==
    IF status = 0 THEN "UNKNOWN_ERROR"
    ELSE IF status = 401 THEN "AUTHENTICATION_ERROR"
    ELSE IF status = 429 THEN "RATE_LIMIT_ERROR"
    ELSE IF status = 400 THEN "INVALID_REQUEST"
    ELSE IF status >= 500 THEN "PROVIDER_ERROR"
    ELSE "UNKNOWN_ERROR"

\* BaseProvider.statusToErrorCode
statusToErrorCode(status) ==
    IF status = 0 THEN "UNKNOWN_ERROR"
    ELSE IF status = 401 \/ status = 403 THEN "AUTHENTICATION_ERROR"
    ELSE IF status = 429 THEN "RATE_LIMIT_ERROR"
    ELSE IF status = 400 THEN "INVALID_REQUEST"
    ELSE IF status >= 500 THEN "PROVIDER_ERROR"
    ELSE "UNKNOWN_ERROR"

\* BaseProvider.createError; code "" stands for an omitted code
createError(message, status, code) ==
    AIGatewayError(message, status, IF code = "" THEN statusToErrorCode(status) ELSE code)

\* A failed fetch(): the runtime's TypeError
NetworkFailure == [kind |-> "Error", status |-> 0, code |-> "", message |-> "fetch failed"]

\* ---- configuration ----

Has(e, v) == v \in e

NoConfig == [type |-> "null", env |-> {}]

\* A provider configuration: its type and the variables it was filled from.
Config(type, e) == [type |-> type, env |-> e]

\* createProviderConfig: the configuration, or the error it throws.
createProviderConfig(e, ai) ==
    CASE ai = "azure" ->
            IF ~Has(e, "AZURE_ENDPOINT") \/ ~Has(e, "AZURE_API_KEY")
            THEN [threw |-> TRUE, config |-> NoConfig,
                  error |-> AIGatewayError("Azure endpoint and API key are required", 500, "CONFIG_ERROR")]
            ELSE [threw |-> FALSE, config |-> Config("azure", e), error |-> NothingThrown]
      [] ai = "azure-foundry" ->
            IF ~Has(e, "AZURE_FOUNDRY_ENDPOINT") \/ ~Has(e, "AZURE_FOUNDRY_API_KEY")
            THEN [threw |-> TRUE, config |-> NoConfig,
                  error |-> AIGatewayError("Azure Foundry endpoint and API key are required", 500, "CONFIG_ERROR")]
            ELSE [threw |-> FALSE, config |-> Config("azure-foundry", e), error |-> NothingThrown]
      [] ai = "openai" ->
            IF ~Has(e, "OPENAI_API_KEY")
            THEN [threw |-> TRUE, config |-> NoConfig,
                  error |-> AIGatewayError("OpenAI API key is required", 500, "CONFIG_ERROR")]
            ELSE [threw |-> FALSE, config |-> Config("openai", e), error |-> NothingThrown]
      [] ai = "cloudflare" ->
            IF ~Has(e, "CF_ACCOUNT_ID") \/ ~Has(e, "CF_API_TOKEN")
            THEN [threw |-> TRUE, config |-> NoConfig,
                  error |-> AIGatewayError("Cloudflare account ID and API token are required", 500, "CONFIG_ERROR")]
            ELSE [threw |-> FALSE, config |-> Config("cloudflare", e), error |-> NothingThrown]
      [] ai = "vertex" ->
            IF ~Has(e, "GCP_PROJECT_ID") /\ ~Has(e, "GEMINI_API_KEY")
            THEN [threw |-> TRUE, config |-> NoConfig,
                  error |-> AIGatewayError("GCP project ID or Gemini API key is required", 500, "CONFIG_ERROR")]
            ELSE [threw |-> FALSE, config |-> Config("vertex", e), error |-> NothingThrown]
      [] OTHER ->
            [threw |-> TRUE, config |-> NoConfig,
             error |-> AIGatewayError("Unknown provider", 400, "CONFIG_ERROR")]

\* createProviderConfigForType without its checks of the environment.
createProviderConfigForTypeUnchecked(providerType, e) ==
    IF providerType \in {"vertex", "azure-foundry", "openai", "cloudflare"}
    THEN Config(providerType, e)
    ELSE NoConfig

\* createProviderConfigForType: the configuration, or NoConfig for null.
createProviderConfigForType(providerType, e) ==
    CASE providerType = "vertex" ->
            IF ~Has(e, "GCP_PROJECT_ID") /\ ~Has(e, "GEMINI_API_KEY")
            THEN NoConfig ELSE Config("vertex", e)
      [] providerType = "azure-foundry" ->
            IF ~Has(e, "AZURE_FOUNDRY_ENDPOINT") \/ ~Has(e, "AZURE_FOUNDRY_API_KEY")
            THEN NoConfig ELSE Config("azure-foundry", e)
      [] providerType = "openai" ->
            IF ~Has(e, "OPENAI_API_KEY") THEN NoConfig ELSE Config("openai", e)
      [] providerType = "cloudflare" ->
            IF ~Has(e, "CF_ACCOUNT_ID") \/ ~Has(e, "CF_API_TOKEN")
            THEN NoConfig ELSE Config("cloudflare", e)
      [] OTHER -> NoConfig

\* createProvider: the constructors' own checks of the configuration.  The
\* result is the error the constructor throws, or NothingThrown.
createProvider(config) ==
    CASE config.type = "azure" ->
            IF ~Has(config.env, "AZURE_ENDPOINT")
            THEN createError("Azure endpoint is required", 400, "CONFIG_ERROR")
            ELSE IF ~Has(config.env, "AZURE_API_KEY")
            THEN createError("Azure API key is required", 400, "CONFIG_ERROR")
            ELSE NothingThrown
      [] config.type = "azure-foundry" ->
            IF ~Has(config.env, "AZURE_FOUNDRY_ENDPOINT")
            THEN createError("Azure Foundry endpoint is required", 400, "CONFIG_ERROR")
            ELSE IF ~Has(config.env, "AZURE_FOUNDRY_API_KEY")
            THEN createError("Azure Foundry API key is required", 400, "CONFIG_ERROR")
            ELSE NothingThrown
      [] config.type = "openai" ->
            IF ~Has(config.env, "OPENAI_API_KEY")
            THEN createError("OpenAI API key is required", 400, "CONFIG_ERROR")
            ELSE NothingThrown
      [] config.type = "cloudflare" ->
            IF ~Has(config.env, "CF_ACCOUNT_ID")
            THEN createError("Cloudflare account ID is required", 400, "CONFIG_ERROR")
            ELSE IF ~Has(config.env, "CF_API_TOKEN")
            THEN createError("Cloudflare API token is required", 400, "CONFIG_ERROR")
            ELSE NothingThrown
      [] config.type = "vertex" ->
            IF ~Has(config.env, "GCP_PROJECT_ID") /\ ~Has(config.env, "GEMINI_API_KEY")
            THEN createError("Vertex AI requires projectId or geminiApiKey", 400, "CONFIG_ERROR")
            ELSE NothingThrown
      [] OTHER ->
            [kind |-> "Error", status |-> 0, code |-> "", message |-> "Unknown provider type"]

\* validateChatRequest: an object whose messages is a non-empty array of
\* objects with `typeof role === 'string'` and a string or array content.
validateChatRequest(body) ==
    /\ body.kind = "object"
    /\ Len(body.messages) /= 0
    /\ \A i \in 1..Len(body.messages) :
          /\ body.messages[i].role.isString
          /\ body.messages[i].content \in {"string", "array"}

\* isAuthenticated
isAuthenticated(r, e) ==
    IF ~Has(e, "CLIENT_API_KEY") THEN TRUE
    ELSE IF r.auth = "binding" THEN TRUE
    ELSE r.auth = "match"

\* ---- dispatch ----

Adapters == {"azure", "azure-foundry", "openai", "cloudflare", "vertex"}

\* The worker's own calls that sit inside a try / catch
GuardedDirect == {"callVertexAI", "callVertexAIStreaming", "callVertexAnthropic"}

\* ... and those that do not
UnguardedDirect == {"callGeminiAPI", "callGeminiAPIStreaming"}

\* supportsStreaming were it true of every provider class.
supportsStreamingEvery(type) == TRUE

\* `readonly supportsStreaming` of each provider class
supportsStreaming(type) == type /= "cloudflare"

\* The model an adapter falls back on (`request.model || this.defaultModel`),
\* each name held as one element.
defaultModel(type) ==
    CASE type = "openai" -> <<"gpt-4o">>
      [] type = "azure-foundry" -> <<"gpt-4o">>
      [] type = "cloudflare" -> <<"@cf/meta/llama-3.1-8b-instruct">>
      [] type = "vertex" -> <<"gemini-2.0-flash">>
      [] OTHER -> <<"gpt-4o">>

\* The model name that reaches the upstream, in the URL or in the body.
\* Azure OpenAI addresses its deployment and sends no model; the worker's own
\* calls put the name they were given into the URL.
WireModel(callee, model) ==
    IF callee = "azure" THEN defaultModel("azure")
    ELSE IF callee \in Adapters
    THEN IF model.set /\ model.text /= <<>> THEN model.text ELSE defaultModel(callee)
    ELSE model.text

Respond(r) ==
    [kind |-> "respond", resp |-> r, thrown |-> NothingThrown, via |-> NoDispatch,
     token |-> FALSE]

Reject(err, callee, model, stream) ==
    [kind |-> "reject", resp |-> NoResponseYet, thrown |-> err,
     via |-> [callee |-> callee, model |-> model, stream |-> stream], token |-> FALSE]

Dispatch(callee, model, stream, token) ==
    [kind |-> "dispatch", resp |-> NoResponseYet, thrown |-> NothingThrown,
     via |-> [callee |-> callee, model |-> model, stream |-> stream], token |-> token]

\* provider.chat / provider.chatStream up to the first await.  Only the
\* Vertex adapter decides anything before its request: chat refuses the
\* service-account path, chatStream takes it and needs a token first.
AdapterCall(config, model, stream) ==
    IF config.type /= "vertex" THEN Dispatch(config.type, model, stream, FALSE)
    ELSE LET key == Has(config.env, "GEMINI_API_KEY")
             sa == Has(config.env, "GCP_SERVICE_ACCOUNT_JSON") /\ Has(config.env, "GCP_PROJECT_ID")
         IN  IF stream
             THEN IF sa THEN Dispatch("vertex", model, TRUE, TRUE)
                  ELSE IF key THEN Dispatch("vertex", model, TRUE, FALSE)
                  ELSE Reject(createError("No valid credentials configured", 400, "CONFIG_ERROR"),
                              "vertex", model, TRUE)
             ELSE IF key THEN Dispatch("vertex", model, FALSE, FALSE)
                  ELSE IF sa
                  THEN Reject(createError("Vertex AI with Service Account requires GEMINI_API_KEY", 501, "CONFIG_ERROR"),
                              "vertex", model, FALSE)
                  ELSE Reject(createError("No valid credentials configured", 400, "CONFIG_ERROR"),
                              "vertex", model, FALSE)

NotConfigured(provider) ==
    CASE provider = "azure-foundry" -> "Provider 'azure-foundry' is not configured"
      [] provider = "openai" -> "Provider 'openai' is not configured"
      [] provider = "cloudflare" -> "Provider 'cloudflare' is not configured"
      [] OTHER -> "Provider is not configured"

\* handleChat from the configuration on: createProvider, then the adapter.
WithProvider(config, model, stream) ==
    IF createProvider(config) /= NothingThrown
    THEN Respond(errorResponse("Provider creation error", 500))
    ELSE AdapterCall(config, model, stream /\ supportsStreaming(config.type))

\* A default-provider check that lets a request with a provider prefix by.
MissingDefaultProviderUnlessPrefixed(r, ai) ==
    ai = "" /\ parseModelPrefix(r.model).provider = "null"

\* `if (!env.AI_PROVIDER)`, which handleChat asks before it reads the body.
MissingDefaultProvider(r, ai) == ai = ""

\* handleChat up to its first upstream await.
handleChat(r, e, ai) ==
    IF Has(e, "REQUIRE_CLIENT_ID") /\ ~r.clientId
    THEN Respond(errorResponse("Missing x-client-id", 400))
    ELSE IF MissingDefaultProvider(r, ai)
    THEN Respond(errorResponse("AI_PROVIDER environment variable is required", 500))
    ELSE IF r.body.kind = "invalidJson"
    THEN Respond(errorResponse("Invalid JSON body", 400))
    ELSE IF ~validateChatRequest(r.body)
    THEN Respond(errorResponse("Invalid request: messages array is required", 400))
    ELSE
    LET parsed == parseModelPrefix(r.model)
        actualModel == Model(parsed.model)
    IN  IF parsed.provider = "gemini-direct"
        THEN IF Has(e, "GCP_PROJECT_ID")
                /\ (Has(e, "VERTEX_API_KEY") \/ Has(e, "GCP_SERVICE_ACCOUNT_JSON"))
             THEN Dispatch(IF r.stream THEN "callVertexAIStreaming" ELSE "callVertexAI",
                           actualModel, r.stream, ~Has(e, "VERTEX_API_KEY"))
             ELSE IF Has(e, "GEMINI_API_KEY")
             THEN Dispatch(IF r.stream THEN "callGeminiAPIStreaming" ELSE "callGeminiAPI",
                           actualModel, r.stream, FALSE)
             ELSE Respond(errorResponse(
                     "GCP_PROJECT_ID + (VERTEX_API_KEY or GCP_SERVICE_ACCOUNT_JSON) required for gemini/ prefix",
                     400))
        ELSE IF parsed.provider = "vertex-anthropic"
        THEN IF ~Has(e, "GCP_PROJECT_ID") \/ ~Has(e, "GCP_SERVICE_ACCOUNT_JSON")
             THEN Respond(errorResponse(
                     "GCP_PROJECT_ID + GCP_SERVICE_ACCOUNT_JSON required for vertex-claude/ or anthropic/ prefix",
                     400))
             ELSE Dispatch("callVertexAnthropic", actualModel, FALSE, TRUE)
        ELSE IF parsed.provider /= "null"
        THEN LET prefixConfig == createProviderConfigForType(parsed.provider, e)
             IN  IF prefixConfig = NoConfig
                 THEN Respond(errorResponse(NotConfigured(parsed.provider), 400))
                 ELSE WithProvider(prefixConfig, actualModel, r.stream)
        ELSE LET made == createProviderConfig(e, ai)
             IN  IF made.threw
                 THEN Respond(errorResponse("Provider config error", 500))
                 ELSE WithProvider(made.config, r.model, r.stream)

\* `return handleChat(...)` inside fetch's try block hands the promise back
\* without awaiting it.
HandleChatAwaited == FALSE

\* The catch block of fetch.
FetchCatch(err) ==
    IF err.kind = "AIGatewayError"
    THEN errorResponse(err.message, err.status)
    ELSE errorResponse(err.message, 500)

\* handleChat's promise rejects with err.  fetch's catch block sees the
\* rejection only if the promise was awaited inside the try block; otherwise
\* the promise fetch returned rejects with it.
Rejects(err) ==
    /\ failed' = err
    /\ resp' = IF HandleChatAwaited THEN FetchCatch(err) ELSE NoResponseYet
    /\ thrown' = IF HandleChatAwaited THEN NothingThrown ELSE err

\* What JSON.parse, atob, importKey or sign throw on a key file that is not
\* JSON or a key that is not PKCS#8: a SyntaxError or a DOMException.
KeyFailure == [kind |-> "Error", status |-> 0, code |-> "", message |-> "malformed key"]

\* ---- the request's life ----

\* Statuses an upstream answers a refused request with
UpstreamStatuses == {400, 401, 403, 404, 429, 500, 503}

ARequest ==
    [method |-> "POST", auth |-> "absent", clientId |-> FALSE, body |-> ValidBody,
     model |-> NoModel, stream |-> FALSE]

ChatInit ==
    /\ env \in Envs
    /\ aiProvider \in AIProviders
    /\ req \in Requests
    /\ cpc = "received"
    /\ via = NoDispatch
    /\ calls = <<>>
    /\ exchanges = 0
    /\ failed = NothingThrown
    /\ resp = NoResponseYet
    /\ thrown = NothingThrown

ChatIdle ==
    /\ env = {}
    /\ aiProvider = ""
    /\ req = ARequest
    /\ cpc = "idle"
    /\ via = NoDispatch
    /\ calls = <<>>
    /\ exchanges = 0
    /\ failed = NothingThrown
    /\ resp = NoResponseYet
    /\ thrown = NothingThrown

\* The request sent upstream for a dispatch
UpstreamCall(d) ==
    [target |-> d.callee, model |-> WireModel(d.callee, d.model), stream |-> d.stream]

\* fetch, and handleChat inside it, up to the first await on an upstream.
Fetch ==
    /\ cpc = "received"
    /\ IF req.method = "OPTIONS"
       THEN /\ resp' = preflightResponse
            /\ cpc' = "done"
            /\ UNCHANGED <<via, calls, failed, thrown>>
       ELSE IF req.method /= "POST"
       THEN /\ resp' = errorResponse("Method not allowed", 405)
            /\ cpc' = "done"
            /\ UNCHANGED <<via, calls, failed, thrown>>
       ELSE IF ~isAuthenticated(req, env)
       THEN /\ resp' = errorResponse("Unauthorized", 401)
            /\ cpc' = "done"
            /\ UNCHANGED <<via, calls, failed, thrown>>
       ELSE LET h == handleChat(req, env, aiProvider)
            IN  /\ via' = h.via
                /\ CASE h.kind = "respond" ->
                          /\ resp' = h.resp
                          /\ cpc' = "done"
                          /\ UNCHANGED <<calls, failed, thrown>>
                     [] h.kind = "reject" ->
                          /\ Rejects(h.thrown)
                          /\ cpc' = "done"
                          /\ UNCHANGED calls
                     [] OTHER ->
                          /\ cpc' = IF h.token THEN "token" ELSE "upstream"
                          /\ calls' = IF h.token THEN calls
                                       ELSE Append(calls, UpstreamCall(h.via))
                          /\ UNCHANGED <<failed, resp, thrown>>
    /\ UNCHANGED <<env, aiProvider, req, exchanges>>
    /\ ChatFrame

\* The access token arrives, from the cache or from one request to the token
\* endpoint, and the model request is sent.
TokenObtained ==
    /\ cpc = "token"
    /\ cpc' = "upstream"
    /\ \E fromCache \in BOOLEAN :
          exchanges' = IF fromCache THEN exchanges ELSE exchanges + 1
    /\ calls' = Append(calls, UpstreamCall(via))
    /\ UNCHANGED <<env, aiProvider, req, via, failed, resp, thrown>>
    /\ ChatFrame

\* The key does not parse or signing fails (no request was sent), or the
\* token endpoint answers with a status that is not ok.  The worker's own
\* calls catch the Error and answer 500; VertexProvider.chatStream lets
\* getAccessToken's error through.
TokenFails ==
    /\ cpc = "token"
    /\ cpc' = "done"
    /\ \E sent \in BOOLEAN :
          /\ exchanges' = IF sent THEN exchanges + 1 ELSE exchanges
          /\ IF via.callee \in GuardedDirect
             THEN /\ resp' = errorResponse("Token exchange failed", 500)
                  /\ UNCHANGED <<failed, thrown>>
             ELSE IF sent
             THEN \E s \in UpstreamStatuses :
                     Rejects(createError("Token exchange failed", s, ""))
             ELSE Rejects(KeyFailure)
    /\ UNCHANGED <<env, aiProvider, req, via, calls>>
    /\ ChatFrame

\* The upstream answers 2xx and the completion (or the stream) is returned.
UpstreamOk ==
    /\ cpc = "upstream"
    /\ cpc' = "done"
    /\ resp' = IF via.stream THEN streamResponse ELSE jsonResponse
    /\ UNCHANGED <<env, aiProvider, req, via, calls, exchanges, failed, thrown>>
    /\ ChatFrame

\* UpstreamError, but sending the request once more before giving up.
UpstreamErrorRetried ==
    /\ cpc = "upstream"
    /\ IF Len(calls) < 2
       THEN /\ calls' = Append(calls, UpstreamCall(via))
            /\ UNCHANGED <<cpc, failed, resp, thrown>>
       ELSE /\ cpc' = "done"
            /\ resp' = errorResponse("upstream error", 500)
            /\ UNCHANGED <<calls, failed, thrown>>
    /\ UNCHANGED <<env, aiProvider, req, via, exchanges>>
    /\ ChatFrame

\* The upstream answers with a status that is not ok.  An adapter throws
\* createError(text, status); handleChat's catch rethrows it (and chatStream
\* is called outside any try).  The worker's own calls answer with
\* errorResponse(text, status).
UpstreamError ==
    /\ cpc = "upstream"
    /\ cpc' = "done"
    /\ \E s \in UpstreamStatuses :
          IF via.callee \in Adapters
          THEN Rejects(createError("upstream error", s, ""))
          ELSE /\ resp' = errorResponse("upstream error", s)
               /\ UNCHANGED <<failed, thrown>>
    /\ UNCHANGED <<env, aiProvider, req, via, calls, exchanges>>
    /\ ChatFrame

\* Workers AI answers 200 with success:false, or without a response text:
\* the adapter throws a PROVIDER_ERROR.
CloudflareEmbeddedFailure ==
    /\ cpc = "upstream"
    /\ via.callee = "cloudflare"
    /\ cpc' = "done"
    /\ \E s \in {400, 500} :
          Rejects(createError("Cloudflare AI error", s, "PROVIDER_ERROR"))
    /\ UNCHANGED <<env, aiProvider, req, via, calls, exchanges>>
    /\ ChatFrame

\* The upstream cannot be reached: fetch() rejects.  Caught only by the
\* worker's guarded calls.
UpstreamUnreachable ==
    /\ cpc = "upstream"
    /\ cpc' = "done"
    /\ IF via.callee \in GuardedDirect
       THEN /\ resp' = errorResponse("fetch failed", 500)
            /\ UNCHANGED <<failed, thrown>>
       ELSE Rejects(NetworkFailure)
    /\ UNCHANGED <<env, aiProvider, req, via, calls, exchanges>>
    /\ ChatFrame

ChatNext ==
    \/ Fetch
    \/ TokenObtained
    \/ TokenFails
    \/ UpstreamOk
    \/ UpstreamError
    \/ CloudflareEmbeddedFailure
    \/ UpstreamUnreachable

-----------------------------------------------------------------------------
(* The adapters: request bodies and response conversions                   *)

MaxErrors == 2         \* entries in the errors list of a Workers AI answer

\* An optional field of a request or of an upstream answer
Unset == [set |-> FALSE, value |-> 0]

Set(v) == [set |-> TRUE, value |-> v]

Gpt5Upper == <<"G","P","T","-","5">>
O1Mini == <<"o","1","-","m","i","n","i">>
O3 == <<"o","3">>
O4Mini == <<"o","4","-","m","i","n","i">>
ClaudeUpper == <<"C","l","a","u","d","e","-","3">>

AdapterModels ==
    {NoModel} \cup
    { Model(t) : t \in {Gpt4oMini, Gpt5Upper, O1Mini, O3, O4Mini, Claude3, ClaudeUpper} }

\* ChatCompletionRequest: the model and the three optional sampling fields
ChatRequests ==
    [model : AdapterModels,
     max_tokens : {Unset, Set(0), Set(100)},
     temperature : {Unset, Set(0), Set(1)},
     top_p : {Unset, Set(0), Set(1)}]

ErrorTexts == {"quota", "overloaded"}

ErrorLists == UNION { [1..n -> ErrorTexts] : n \in 0..MaxErrors }

\* What Workers AI answers: a status that is not ok, or 200 with a body
\* {success?, errors?, result?: {response?}}.  response is "noResult" when
\* result is missing, "undefined" when result has no response, "null",
\* "" or a text.
CloudflareAnswers ==
    [wire : {"cloudflare"}, status : {401, 500}, success : {"true"},
     errors : {Unset}, response : {"noResult"}, stop_reason : {"undefined"}]
    \cup
    [wire : {"cloudflare"}, status : {200}, success : {"true", "false", "undefined"},
     errors : {Unset} \cup { Set(l) : l \in ErrorLists },
     response : {"noResult", "undefined", "null", "", "Hello"},
     stop_reason : {"undefined"}]

\* What an Anthropic-wire upstream answers: its stop_reason
StopReasons == {"end_turn", "stop_sequence", "max_tokens", "tool_use", "refusal", "undefined"}

AnthropicAnswers ==
    [wire : {"anthropic"}, status : {200}, success : {"true"}, errors : {Unset},
     response : {"Hello"}, stop_reason : StopReasons]

Answers == CloudflareAnswers \cup AnthropicAnswers

\* ---- request bodies ----

\* A body is the function from the keys it holds to their values.  Of the
\* keys only the sampling ones are kept; model, messages and stream are in
\* every body.
NoBody == [k \in {} |-> 0]

\* body[key] = value
With(body, key, value) ==
    [k \in DOMAIN body \cup {key} |-> IF k = key THEN value ELSE body[k]]

\* `body[key] = field`, whether the field is set or not (0 for null).
WithAlways(body, key, field) == With(body, key, field.value)

\* `if (field !== undefined) body[key] = field`
WithIfDefined(body, key, field) ==
    IF field.set THEN With(body, key, field.value) ELSE body

\* OpenAIProvider.buildRequestBody
OpenAIBuildRequestBody(request) ==
    WithIfDefined(WithIfDefined(WithIfDefined(NoBody,
        "max_tokens", request.max_tokens),
        "temperature", request.temperature),
        "top_p", request.top_p)

\* AzureProvider.buildRequestBody
AzureBuildRequestBody(request) ==
    WithIfDefined(WithIfDefined(WithIfDefined(NoBody,
        "max_tokens", request.max_tokens),
        "temperature", request.temperature),
        "top_p", request.top_p)

\* isClaudeModel without the lower-casing.
isClaudeModelCaseSensitive(model) ==
    StartsWith(model, <<"c","l","a","u","d","e">>)

\* model.toLowerCase().startsWith('claude')
isClaudeModel(model) ==
    StartsWith(ToLowerCase(model), <<"c","l","a","u","d","e">>)

usesMaxCompletionTokens(model) ==
    LET m == ToLowerCase(model)
    IN  \/ StartsWith(m, <<"g","p","t","-","5">>)
        \/ StartsWith(m, <<"o","1">>)
        \/ StartsWith(m, <<"o","3">>)
        \/ StartsWith(m, <<"o","4">>)

\* AzureFoundryProvider.buildOpenAIBody
buildOpenAIBody(request, model) ==
    LET tokens ==
            IF request.max_tokens.set
            THEN IF usesMaxCompletionTokens(model)
                 THEN With(NoBody, "max_completion_tokens", request.max_tokens.value)
                 ELSE With(NoBody, "max_tokens", request.max_tokens.value)
            ELSE NoBody
    IN  WithIfDefined(WithIfDefined(tokens,
            "temperature", request.temperature),
            "top_p", request.top_p)

\* `request.max_tokens || fallback`: undefined and 0 give the fallback
OrDefault(field, fallback) ==
    IF field.set /\ field.value /= 0 THEN field.value ELSE fallback

\* AzureFoundryProvider.buildClaudeBody
buildClaudeBody(request, model) ==
    WithIfDefined(WithIfDefined(
        With(NoBody, "max_tokens", OrDefault(request.max_tokens, 4096)),
        "temperature", request.temperature),
        "top_p", request.top_p)

\* The body CloudflareProvider.chat sends
CloudflareBody(request) ==
    WithIfDefined(WithIfDefined(NoBody,
        "max_tokens", request.max_tokens),
        "temperature", request.temperature)

\* The body callVertexAnthropic sends
VertexAnthropicBody(maxTokens) ==
    With(NoBody, "max_tokens", OrDefault(maxTokens, 8192))

\* `if (field) body[key] = field`: undefined and 0 leave the key out
WithIfTruthy(body, key, field) ==
    IF field.set /\ field.value /= 0 THEN With(body, key, field.value) ELSE body

\* VertexProvider.buildRequestBody: the generationConfig object
VertexBuildRequestBody(request) ==
    IF (request.max_tokens.set /\ request.max_tokens.value /= 0)
       \/ request.temperature.set \/ request.top_p.set
    THEN With(NoBody, "generationConfig",
              WithIfDefined(WithIfDefined(WithIfTruthy(NoBody,
                  "maxOutputTokens", request.max_tokens),
                  "temperature", request.temperature),
                  "topP", request.top_p))
    ELSE NoBody

\* The body of callVertexAI, callVertexAIStreaming, callGeminiAPI and
\* callGeminiAPIStreaming: contents and systemInstruction, built from the
\* messages alone.
WorkerGeminiBody == NoBody

\* ---- response conversions ----

NoResult == [kind |-> "none", content |-> "", finish_reason |-> "", error |-> NothingThrown]

ChatResponse(content, finish_reason) ==
    [kind |-> "response", content |-> content, finish_reason |-> finish_reason,
     error |-> NothingThrown]

Throws(err) == [kind |-> "error", content |-> "", finish_reason |-> "", error |-> err]

\* errors.map(e => e.message).join(', ')
RECURSIVE JoinMessages(_)
JoinMessages(list) ==
    IF list = <<>> THEN ""
    ELSE IF Len(list) = 1 THEN list[1]
    ELSE list[1] \o ", " \o JoinMessages(Tail(list))

\* `data.errors?.map(e => e.message).join(', ') || 'Unknown error'`
errorMessages(errors) ==
    IF errors.set /\ JoinMessages(errors.value) /= ""
    THEN JoinMessages(errors.value)
    ELSE "Unknown error"

\* CloudflareProvider.chat trusting the HTTP status alone.
CloudflareConvertByStatus(data) ==
    IF data.status /= 200
    THEN Throws(createError("Cloudflare AI error: upstream", data.status, ""))
    ELSE ChatResponse(data.response, "stop")

\* CloudflareProvider.chat from the upstream's answer on
CloudflareConvert(data) ==
    IF data.status /= 200
    THEN Throws(createError("Cloudflare AI error: upstream", data.status, ""))
    ELSE IF data.success /= "true"
    THEN Throws(createError("Cloudflare AI error: " \o errorMessages(data.errors),
                            400, "PROVIDER_ERROR"))
    ELSE IF data.response \in {"noResult", "undefined", "null"}
    THEN Throws(createError("Cloudflare AI returned empty response", 500, "PROVIDER_ERROR"))
    ELSE ChatResponse(data.response, "stop")

\* AzureFoundryProvider.mapAnthropicStopReason
mapAnthropicStopReason(stopReason) ==
    CASE stopReason \in {"end_turn", "stop_sequence"} -> "stop"
      [] stopReason = "max_tokens" -> "length"
      [] OTHER -> "stop"

\* AzureFoundryProvider.convertAnthropicToOpenAI
convertAnthropicToOpenAI(response) ==
    ChatResponse(response.response, mapAnthropicStopReason(response.stop_reason))

\* callVertexAnthropic's conversion:
\* `stop_reason === 'end_turn' ? 'stop' : 'stop'`
VertexAnthropicConvert(response) ==
    ChatResponse(response.response,
                 IF response.stop_reason = "end_turn" THEN "stop" ELSE "stop")

\* ---- one call of one adapter ----

AdapterInit ==
    /\ aReq \in ChatRequests
    /\ aUp \in Answers
    /\ aOp = "none"
    /\ aBody = NoBody
    /\ aRes = NoResult

AdapterIdle ==
    /\ aReq = [model |-> NoModel, max_tokens |-> Unset, temperature |-> Unset,
               top_p |-> Unset]
    /\ aUp = [wire |-> "anthropic", status |-> 200, success |-> "true",
              errors |-> Unset, response |-> "Hello", stop_reason |-> "undefined"]
    /\ aOp = "idle"
    /\ aBody = NoBody
    /\ aRes = NoResult

\* `request.model || defaultModel`
ResolvedModel(type) ==
    IF aReq.model.set /\ aReq.model.text /= <<>> THEN aReq.model.text ELSE defaultModel(type)

\* OpenAIProvider.chat up to its request
OpenAIChat ==
    /\ aOp = "none"
    /\ aOp' = "openai"
    /\ aBody' = OpenAIBuildRequestBody(aReq)
    /\ UNCHANGED <<aReq, aUp, aRes>>
    /\ AdapterFrame

\* AzureProvider.chat up to its request
AzureChat ==
    /\ aOp = "none"
    /\ aOp' = "azure"
    /\ aBody' = AzureBuildRequestBody(aReq)
    /\ UNCHANGED <<aReq, aUp, aRes>>
    /\ AdapterFrame

\* AzureFoundryProvider.chat: the wire is chosen by the model's name; on
\* the Anthropic wire the answer is converted.
AzureFoundryChat ==
    /\ aOp = "none"
    /\ LET model == ResolvedModel("azure-foundry")
       IN  IF isClaudeModel(model)
           THEN /\ aOp' = "foundry-claude"
                /\ aBody' = buildClaudeBody(aReq, model)
                /\ aRes' = IF aUp.wire = "anthropic"
                           THEN convertAnthropicToOpenAI(aUp) ELSE NoResult
           ELSE /\ aOp' = "foundry-openai"
                /\ aBody' = buildOpenAIBody(aReq, model)
                /\ aRes' = NoResult
    /\ UNCHANGED <<aReq, aUp>>
    /\ AdapterFrame

\* CloudflareProvider.chat
CloudflareChat ==
    /\ aOp = "none"
    /\ aUp.wire = "cloudflare"
    /\ aOp' = "cloudflare"
    /\ aBody' = CloudflareBody(aReq)
    /\ aRes' = CloudflareConvert(aUp)
    /\ UNCHANGED <<aReq, aUp>>
    /\ AdapterFrame

\* callVertexAnthropic from its request on
CallVertexAnthropic ==
    /\ aOp = "none"
    /\ aUp.wire = "anthropic"
    /\ aOp' = "vertex-anthropic"
    /\ aBody' = VertexAnthropicBody(aReq.max_tokens)
    /\ aRes' = VertexAnthropicConvert(aUp)
    /\ UNCHANGED <<aReq, aUp>>
    /\ AdapterFrame

\* VertexProvider.chat and chatStream up to their request
VertexChat ==
    /\ aOp = "none"
    /\ aOp' = "vertex"
    /\ aBody' = VertexBuildRequestBody(aReq)
    /\ UNCHANGED <<aReq, aUp, aRes>>
    /\ AdapterFrame

\* callVertexAI and callVertexAIStreaming up to their request
CallVertexAI ==
    /\ aOp = "none"
    /\ aOp' = "callVertexAI"
    /\ aBody' = WorkerGeminiBody
    /\ UNCHANGED <<aReq, aUp, aRes>>
    /\ AdapterFrame

\* callGeminiAPI and callGeminiAPIStreaming up to their request
CallGeminiAPI ==
    /\ aOp = "none"
    /\ aOp' = "callGeminiAPI"
    /\ aBody' = WorkerGeminiBody
    /\ UNCHANGED <<aReq, aUp, aRes>>
    /\ AdapterFrame

AdapterNext ==
    \/ OpenAIChat
    \/ AzureChat
    \/ AzureFoundryChat
    \/ CloudflareChat
    \/ CallVertexAnthropic
    \/ VertexChat
    \/ CallVertexAI
    \/ CallGeminiAPI

-----------------------------------------------------------------------------
(* One streaming call: the upstream's response, the stream handed to the   *)
(* consumer, and the consumer cancelling it                                *)

MaxChunks == 2         \* chunks an upstream body delivers

\* The adapters' chatStream methods and the worker's own streaming calls.
StreamingAdapters == {"openai", "azure", "foundry-openai", "foundry-claude", "vertexProvider"}

StreamingDirect == {"vertexWorker", "geminiWorker"}

\* The calls that hand the upstream body through a TransformStream
\* (`response.body.pipeThrough(transformer)`), the one that wraps it in a
\* ReadableStream of its own, and those that return `response.body` itself.
Piped == {"vertexProvider", "vertexWorker", "geminiWorker"}

Wrapped == {"foundry-claude"}

PassedThrough == {"openai", "azure", "foundry-openai"}

\* The transformers whose flush enqueues 'data: [DONE]'.
FlushesDone == {"vertexWorker", "geminiWorker"}

UpstreamResponses == [status : {200, 401, 500}, body : BOOLEAN]

NoStream == [kind |-> "none", status |-> 0, code |-> "", message |-> ""]

ReturnsStream == [kind |-> "stream", status |-> 200, code |-> "", message |-> ""]

\* The worker's errorResponse(message, status), in the shape of a result.
ReturnsErrorResponse(message, status) ==
    [kind |-> "errorResponse", status |-> status, code |-> "", message |-> message]

\* The checks every streaming call makes on the upstream's response, without
\* the check for a body.
StreamCallOutcomeNoBodyCheck(kind, response) ==
    IF response.status /= 200
    THEN IF kind \in StreamingAdapters
         THEN createError("upstream error", response.status, "")
         ELSE ReturnsErrorResponse("upstream error", response.status)
    ELSE ReturnsStream

\* `if (!response.ok) ...; if (!response.body) ...; return <stream>`: the
\* adapters throw createError, the worker's calls return errorResponse.
StreamCallOutcome(kind, response) ==
    IF response.status /= 200
    THEN IF kind \in StreamingAdapters
         THEN createError("upstream error", response.status, "")
         ELSE ReturnsErrorResponse("upstream error", response.status)
    ELSE IF ~response.body
    THEN IF kind \in StreamingAdapters
         THEN createError("No response body for streaming", 500, "PROVIDER_ERROR")
         ELSE ReturnsErrorResponse("No response body for streaming", 500)
    ELSE ReturnsStream

LifeInit ==
    /\ lKind \in StreamingAdapters \cup StreamingDirect
    /\ lResp \in UpstreamResponses
    /\ lpc = "called"
    /\ lRes = NoStream
    /\ lTransform = FALSE
    /\ lUp = "none"
    /\ lOut = "none"
    /\ lPump = "none"
    /\ lLeft \in 0..MaxChunks
    /\ lEmitted = 0
    /\ lReadsAfter = 0
    /\ lDemand = FALSE
    /\ lTaken = 0
    /\ lUnasked = 0

LifeIdle ==
    /\ lKind = "openai"
    /\ lResp = [status |-> 200, body |-> TRUE]
    /\ lpc = "idle"
    /\ lRes = NoStream
    /\ lTransform = FALSE
    /\ lUp = "none"
    /\ lOut = "none"
    /\ lPump = "none"
    /\ lLeft = 0
    /\ lEmitted = 0
    /\ lReadsAfter = 0
    /\ lDemand = FALSE
    /\ lTaken = 0
    /\ lUnasked = 0

\* The call from the upstream's response on: it fails, or it hands a stream
\* to the consumer.  `transcodes` says whether the stream is a transcoder's.
Answered(transcodes) ==
    /\ lpc = "called"
    /\ lRes' = StreamCallOutcome(lKind, lResp)
    /\ IF StreamCallOutcome(lKind, lResp) = ReturnsStream
       THEN /\ lpc' = "streaming"
            /\ lTransform' = transcodes
            /\ lUp' = "open"
            /\ lOut' = "readable"
            /\ lPump' = IF lKind \in Wrapped THEN "running" ELSE "none"
       ELSE /\ lpc' = "failed"
            /\ UNCHANGED <<lTransform, lUp, lOut, lPump>>
    /\ UNCHANGED <<lKind, lResp, lLeft, lEmitted, lReadsAfter, lDemand, lTaken, lUnasked>>
    /\ LifeFrame

\* OpenAIProvider.chatStream
OpenAIChatStream == lKind = "openai" /\ Answered(FALSE)

\* AzureProvider.chatStream
AzureChatStream == lKind = "azure" /\ Answered(FALSE)

\* AzureFoundryProvider.chatStream on the OpenAI wire
FoundryChatStream == lKind = "foundry-openai" /\ Answered(FALSE)

\* AzureFoundryProvider.chatStreamClaude
FoundryChatStreamClaude == lKind = "foundry-claude" /\ Answered(TRUE)

\* VertexProvider.chatStream
VertexChatStream == lKind = "vertexProvider" /\ Answered(TRUE)

\* callVertexAIStreaming
CallVertexAIStreaming == lKind = "vertexWorker" /\ Answered(TRUE)

\* callGeminiAPIStreaming
CallGeminiAPIStreaming == lKind = "geminiWorker" /\ Answered(TRUE)

\* What enqueuing `n` events does to a waiting read(): the first event
\* resolves it.
Enqueued(n) ==
    /\ lEmitted' = lEmitted + n
    /\ lTaken' = IF lDemand /\ n > 0 THEN lTaken + 1 ELSE lTaken
    /\ lDemand' = (lDemand /\ n = 0)

\* A chunk travels from the upstream body to the consumer, through the pipe
\* and its transformer or directly; a transformer turns it into `n` events.
\* The readable side of a TransformStream has a high-water mark of 0: its
\* transform runs while a read() of the consumer waits, and response.body
\* itself is read by the consumer alone.
ChunkThrough ==
    /\ lpc = "streaming"
    /\ lKind \notin Wrapped
    /\ lUp = "open" /\ lOut = "readable" /\ lLeft > 0
    /\ lDemand
    /\ lLeft' = lLeft - 1
    /\ \E n \in 0..1 : Enqueued(n)
    /\ UNCHANGED <<lKind, lResp, lpc, lRes, lTransform, lUp, lOut, lPump, lReadsAfter,
                   lUnasked>>
    /\ LifeFrame

\* The upstream body ends: the pipe closes the transformer, whose flush (if
\* it has one) enqueues the sentinel, and the consumer's stream closes.
UpstreamEnds ==
    /\ lpc = "streaming"
    /\ lKind \notin Wrapped
    /\ lUp = "open" /\ lOut = "readable" /\ lLeft = 0
    /\ lUp' = "ended"
    /\ lOut' = "closed"
    /\ lEmitted' = IF lKind \in FlushesDone THEN lEmitted + 1 ELSE lEmitted
    /\ lTaken' = IF lKind \in FlushesDone /\ lDemand THEN lTaken + 1 ELSE lTaken
    /\ lDemand' = FALSE
    /\ UNCHANGED <<lKind, lResp, lpc, lRes, lTransform, lPump, lLeft, lReadsAfter,
                   lUnasked>>
    /\ LifeFrame

\* One turn of transformAnthropicStream's loop with a chunk:
\* `await reader.read()`, then the lines of the chunk, of which `n` call
\* controller.enqueue.  On a stream the consumer has cancelled enqueue
\* throws; the catch block calls controller.error and the loop is left,
\* with the reader neither cancelled nor released.
PumpReads ==
    /\ lpc = "streaming"
    /\ lPump = "running"
    /\ lUp = "open" /\ lLeft > 0
    /\ lLeft' = lLeft - 1
    /\ lUnasked' = IF lDemand THEN lUnasked ELSE lUnasked + 1
    /\ \E n \in 0..1 :
          IF lOut = "readable"
          THEN /\ Enqueued(n)
               /\ UNCHANGED <<lPump, lReadsAfter>>
          ELSE /\ lReadsAfter' = lReadsAfter + 1
               /\ lPump' = IF n > 0 THEN "stopped" ELSE "running"
               /\ UNCHANGED <<lEmitted, lDemand, lTaken>>
    /\ UNCHANGED <<lKind, lResp, lpc, lRes, lTransform, lUp, lOut>>
    /\ LifeFrame

\* The turn of the loop in which read() reports done: the sentinel is
\* enqueued and the stream closed (on a cancelled stream enqueue throws).
PumpDone ==
    /\ lpc = "streaming"
    /\ lPump = "running"
    /\ lUp = "open" /\ lLeft = 0
    /\ lUp' = "ended"
    /\ lPump' = "stopped"
    /\ IF lOut = "readable"
       THEN Enqueued(1) /\ lOut' = "closed"
       ELSE UNCHANGED <<lEmitted, lOut, lDemand, lTaken>>
    /\ UNCHANGED <<lKind, lResp, lpc, lRes, lTransform, lLeft, lReadsAfter, lUnasked>>
    /\ LifeFrame

\* The consumer cancels the stream it was handed.  Cancelling response.body
\* cancels the upstream; cancelling the readable side of a TransformStream
\* errors its writable side, which makes the pipe cancel its source.  The
\* ReadableStream built by transformAnthropicStream has no cancel callback.
ConsumerCancels ==
    /\ lpc = "streaming"
    /\ lOut = "readable"
    /\ lOut' = "cancelled"
    /\ lUp' = IF lKind \in Wrapped THEN lUp ELSE "cancelled"
    /\ lDemand' = FALSE
    /\ UNCHANGED <<lKind, lResp, lpc, lRes, lTransform, lPump, lLeft, lEmitted,
                   lReadsAfter, lTaken, lUnasked>>
    /\ LifeFrame

\* The consumer calls read() on the stream it was handed: it takes an event
\* that is queued, or waits for the next one.
ConsumerReads ==
    /\ lpc = "streaming"
    /\ ~lDemand
    /\ \/ /\ lOut \in {"readable", "closed"}
          /\ lEmitted > lTaken
          /\ lTaken' = lTaken + 1
          /\ UNCHANGED lDemand
       \/ /\ lOut = "readable"
          /\ lEmitted = lTaken
          /\ lDemand' = TRUE
          /\ UNCHANGED lTaken
    /\ UNCHANGED <<lKind, lResp, lpc, lRes, lTransform, lUp, lOut, lPump, lLeft,
                   lEmitted, lReadsAfter, lUnasked>>
    /\ LifeFrame

LifeNext ==
    \/ OpenAIChatStream
    \/ AzureChatStream
    \/ FoundryChatStream
    \/ FoundryChatStreamClaude
    \/ VertexChatStream
    \/ CallVertexAIStreaming
    \/ CallGeminiAPIStreaming
    \/ ChunkThrough
    \/ UpstreamEnds
    \/ PumpReads
    \/ PumpDone
    \/ ConsumerCancels
    \/ ConsumerReads

-----------------------------------------------------------------------------
(* The usage block of a converted response                                 *)

MaxTokens == 2         \* the largest prompt or completion count reported

\* NaN, the sum of a number and undefined
NaN == [set |-> TRUE, value |-> -1]

TokenCounts == { Set(n) : n \in 0..MaxTokens }

\* What an Anthropic-wire upstream reports: no usage, or input_tokens and
\* output_tokens, either of which may be missing.
AnthropicUsages ==
    [wire : {"anthropic"}, present : BOOLEAN, a : TokenCounts \cup {Unset},
     b : TokenCounts \cup {Unset}, total : {Unset}]

\* What a Gemini-wire upstream reports: no usageMetadata, or
\* promptTokenCount, candidatesTokenCount and a totalTokenCount of its own
\* counting.
GeminiUsages ==
    [wire : {"gemini"}, present : BOOLEAN, a : TokenCounts, b : TokenCounts,
     total : { Set(n) : n \in 0..(2 * MaxTokens + 1) }]

NoUsage == [present |-> FALSE, prompt_tokens |-> Unset, completion_tokens |-> Unset,
            total_tokens |-> Unset]

Usage(prompt, completion, total) ==
    [present |-> TRUE, prompt_tokens |-> prompt, completion_tokens |-> completion,
     total_tokens |-> total]

NoConversion == [kind |-> "none", usage |-> NoUsage]

Converted(usage) == [kind |-> "response", usage |-> usage]

\* Reading a property of undefined
TypeErrorThrown == [kind |-> "error", usage |-> NoUsage]

\* `x || 0`
OrZero(field) == IF field.set THEN field.value ELSE 0

\* convertAnthropicToOpenAI's usage:
\* `response.usage.input_tokens + response.usage.output_tokens`
FoundryAnthropicUsage(up) ==
    IF ~up.present THEN TypeErrorThrown
    ELSE Converted(Usage(up.a, up.b,
                         IF up.a.set /\ up.b.set THEN Set(up.a.value + up.b.value)
                         ELSE NaN))

\* callVertexAnthropic's usage:
\* `usage ? {..., total_tokens: (input_tokens || 0) + (output_tokens || 0)} : undefined`
WorkerAnthropicUsage(up) ==
    IF ~up.present THEN Converted(NoUsage)
    ELSE Converted(Usage(up.a, up.b, Set(OrZero(up.a) + OrZero(up.b))))

\* The Gemini-wire conversions' usage:
\* `usageMetadata ? {..., total_tokens: usageMetadata.totalTokenCount} : undefined`
GeminiUsage(up) ==
    IF ~up.present THEN Converted(NoUsage)
    ELSE Converted(Usage(up.a, up.b, up.total))

UsageInit ==
    /\ uUp \in AnthropicUsages \cup GeminiUsages
    /\ uOp = "none"
    /\ uRes = NoConversion

UsageIdle ==
    /\ uUp = [wire |-> "gemini", present |-> FALSE, a |-> Set(0), b |-> Set(0),
              total |-> Set(0)]
    /\ uOp = "idle"
    /\ uRes = NoConversion

\* AzureFoundryProvider.convertAnthropicToOpenAI
FoundryConvertsUsage ==
    /\ uOp = "none" /\ uUp.wire = "anthropic"
    /\ uOp' = "convertAnthropicToOpenAI"
    /\ uRes' = FoundryAnthropicUsage(uUp)
    /\ UNCHANGED uUp
    /\ UsageFrame

\* callVertexAnthropic
VertexAnthropicConvertsUsage ==
    /\ uOp = "none" /\ uUp.wire = "anthropic"
    /\ uOp' = "callVertexAnthropic"
    /\ uRes' = WorkerAnthropicUsage(uUp)
    /\ UNCHANGED uUp
    /\ UsageFrame

\* VertexProvider.convertResponse
VertexProviderConvertsUsage ==
    /\ uOp = "none" /\ uUp.wire = "gemini"
    /\ uOp' = "convertResponse"
    /\ uRes' = GeminiUsage(uUp)
    /\ UNCHANGED uUp
    /\ UsageFrame

\* callVertexAI
CallVertexAIConvertsUsage ==
    /\ uOp = "none" /\ uUp.wire = "gemini"
    /\ uOp' = "callVertexAI"
    /\ uRes' = GeminiUsage(uUp)
    /\ UNCHANGED uUp
    /\ UsageFrame

\* callGeminiAPI
CallGeminiAPIConvertsUsage ==
    /\ uOp = "none" /\ uUp.wire = "gemini"
    /\ uOp' = "callGeminiAPI"
    /\ uRes' = GeminiUsage(uUp)
    /\ UNCHANGED uUp
    /\ UsageFrame

UsageNext ==
    \/ FoundryConvertsUsage
    \/ VertexAnthropicConvertsUsage
    \/ VertexProviderConvertsUsage
    \/ CallVertexAIConvertsUsage
    \/ CallGeminiAPIConvertsUsage

-----------------------------------------------------------------------------
(* Anthropic-wire request translation: the messages                        *)

MaxMessages == 2       \* messages of a request

Roles == {"system", "user", "assistant", "tool"}

\* A content is a string, or an array of parts
Contents ==
    { [isString |-> TRUE, text |-> "a"], [isString |-> TRUE, text |-> "b"],
      [isString |-> FALSE, text |-> "parts"] }

ChatMessages == [role : Roles, content : Contents]

MessageSeqs == UNION { [1..n -> ChatMessages] : n \in 1..MaxMessages }

\* JSON.stringify(content)
JSONStringify(content) == [isString |-> TRUE, text |-> "[" \o content.text \o "]"]

\* `typeof m.content === 'string' ? m.content : JSON.stringify(m.content)`
Flatten(content) == IF content.isString THEN content ELSE JSONStringify(content)

IsSystem(m) == m.role = "system"

NotSystem(m) == m.role /= "system"

NotSystemNorTool(m) == m.role /= "system" /\ m.role /= "tool"

NoSystem == [set |-> FALSE, content |-> [isString |-> TRUE, text |-> ""]]

System(content) == [set |-> TRUE, content |-> content]

\* AzureFoundryProvider.convertToAnthropicMessages
convertToAnthropicMessages(messages) ==
    LET kept == SelectSeq(messages, NotSystemNorTool)
    IN  [i \in 1..Len(kept) |->
            [role |-> kept[i].role, content |-> Flatten(kept[i].content)]]

\* AzureFoundryProvider.getSystemPrompt, and the same lines of
\* callVertexAnthropic: `messages.find(m => m.role === 'system')`
getSystemPrompt(messages) ==
    LET found == SelectSeq(messages, IsSystem)
    IN  IF found = <<>> THEN NoSystem ELSE System(Flatten(found[1].content))

\* callVertexAnthropic: chatMessages.map(...)
VertexAnthropicMessages(messages) ==
    LET chatMessages == SelectSeq(messages, NotSystem)
    IN  [i \in 1..Len(chatMessages) |->
            [role |-> IF chatMessages[i].role = "user" THEN "user" ELSE "assistant",
             content |-> Flatten(chatMessages[i].content)]]

MessagesInit ==
    /\ mIn \in MessageSeqs
    /\ mOp = "none"
    /\ mOut = <<>>
    /\ mSystem = NoSystem

MessagesIdle ==
    /\ mIn = <<>>
    /\ mOp = "idle"
    /\ mOut = <<>>
    /\ mSystem = NoSystem

\* AzureFoundryProvider.buildClaudeBody: messages and system
\* (`if (systemPrompt) body.system = systemPrompt`)
BuildClaudeMessages ==
    /\ mOp = "none"
    /\ mOp' = "foundry-claude"
    /\ mOut' = convertToAnthropicMessages(mIn)
    /\ mSystem' = LET systemPrompt == getSystemPrompt(mIn)
                  IN  IF systemPrompt.set /\ systemPrompt.content.text /= ""
                      THEN systemPrompt ELSE NoSystem
    /\ UNCHANGED mIn
    /\ MessagesFrame

\* callVertexAnthropic: messages and system
CallVertexAnthropicMessages ==
    /\ mOp = "none"
    /\ mOp' = "vertex-anthropic"
    /\ mOut' = VertexAnthropicMessages(mIn)
    /\ mSystem' = getSystemPrompt(mIn)
    /\ UNCHANGED mIn
    /\ MessagesFrame

MessagesNext ==
    \/ BuildClaudeMessages
    \/ CallVertexAnthropicMessages

-----------------------------------------------------------------------------
(* BaseProvider.createError                                                *)

\* `readonly name` of the provider classes
ProviderNames == Adapters

\* Statuses createError is called with (0: none given)
ErrorStatuses == {0, 400, 401, 403, 404, 429, 500, 502, 503}

\* AIGatewayErrorCode
ErrorCodes ==
    {"INVALID_REQUEST", "AUTHENTICATION_ERROR", "RATE_LIMIT_ERROR", "PROVIDER_ERROR",
     "NETWORK_ERROR", "CONFIG_ERROR", "UNKNOWN_ERROR"}

\* The `raw` argument: null, or the text of the upstream's answer
RawBodies == {"null", "quota exceeded", "overloaded"}

ErrorArguments ==
    [provider : ProviderNames, status : ErrorStatuses, raw : RawBodies,
     code : ErrorCodes \cup {""}]

NoError == [kind |-> "none", status |-> 0, code |-> "", message |-> "",
            provider |-> "", raw |-> "null"]

\* this.createError(message, status, raw, code) of the provider `name`
ProviderCreateError(name, message, status, raw, code) ==
    LET err == createError(message, status, code)
    IN  [kind |-> err.kind, status |-> err.status, code |-> err.code,
         message |-> err.message, provider |-> name, raw |-> raw]

ErrorsInit ==
    /\ eIn \in ErrorArguments
    /\ eOp = "none"
    /\ eErr = NoError

ErrorsIdle ==
    /\ eIn = [provider |-> "openai", status |-> 0, raw |-> "null", code |-> ""]
    /\ eOp = "idle"
    /\ eErr = NoError

\* createError(message, status, raw): the code is derived from the status
CreateErrorFromStatus ==
    /\ eOp = "none"
    /\ eIn.code = ""
    /\ eOp' = "fromStatus"
    /\ eErr' = ProviderCreateError(eIn.provider, "upstream error", eIn.status, eIn.raw, "")
    /\ UNCHANGED eIn
    /\ ErrorsFrame

\* createError(message, status, raw, code)
CreateErrorWithCode ==
    /\ eOp = "none"
    /\ eIn.code /= ""
    /\ eOp' = "withCode"
    /\ eErr' = ProviderCreateError(eIn.provider, "error", eIn.status, eIn.raw, eIn.code)
    /\ UNCHANGED eIn
    /\ ErrorsFrame

ErrorsNext ==
    \/ CreateErrorFromStatus
    \/ CreateErrorWithCode

-----------------------------------------------------------------------------
(* Specifications: each part of the gateway runs with the others at rest   *)

InitStream == StreamInit /\ TokenIdle /\ ChatIdle /\ AdapterIdle /\ LifeIdle /\ UsageIdle
                /\ MessagesIdle /\ ErrorsIdle

SpecStream == InitStream /\ [][StreamNext]_vars

\* transformAnthropicStream alone, fed by an upstream that sends whole
\* events: every line ends with a newline.
InitAnthropic ==
    /\ InitStream
    /\ sKind = "anthropic"
    /\ payload[Len(payload)] = NL

AnthropicNext ==
    \/ AnthropicStreamRead
    \/ AnthropicStreamDone

SpecAnthropic == InitAnthropic /\ [][AnthropicNext]_vars

InitToken == TokenInit /\ StreamIdle /\ ChatIdle /\ AdapterIdle /\ LifeIdle /\ UsageIdle
                /\ MessagesIdle /\ ErrorsIdle

SpecToken == InitToken /\ [][TokenNext]_vars

InitChat == ChatInit /\ StreamIdle /\ TokenIdle /\ AdapterIdle /\ LifeIdle /\ UsageIdle
                /\ MessagesIdle /\ ErrorsIdle

SpecChat == InitChat /\ [][ChatNext]_vars

InitAdapter == AdapterInit /\ StreamIdle /\ TokenIdle /\ ChatIdle /\ LifeIdle /\ UsageIdle
                /\ MessagesIdle /\ ErrorsIdle

SpecAdapter == InitAdapter /\ [][AdapterNext]_vars

InitLife == LifeInit /\ StreamIdle /\ TokenIdle /\ ChatIdle /\ AdapterIdle /\ UsageIdle
                /\ MessagesIdle /\ ErrorsIdle

SpecLife == InitLife /\ [][LifeNext]_vars

InitUsage ==
    UsageInit /\ StreamIdle /\ TokenIdle /\ ChatIdle /\ AdapterIdle /\ LifeIdle
              /\ MessagesIdle /\ ErrorsIdle

InitMessages ==
    MessagesInit /\ StreamIdle /\ TokenIdle /\ ChatIdle /\ AdapterIdle /\ LifeIdle
                 /\ UsageIdle /\ ErrorsIdle

SpecMessages == InitMessages /\ [][MessagesNext]_vars

InitErrors ==
    ErrorsInit /\ StreamIdle /\ TokenIdle /\ ChatIdle /\ AdapterIdle /\ LifeIdle
               /\ UsageIdle /\ MessagesIdle

SpecErrors == InitErrors /\ [][ErrorsNext]_vars

SpecUsage == InitUsage /\ [][UsageNext]_vars

-----------------------------------------------------------------------------
(* Claims about the token cache                                            *)

FiveMinutesMs == 5 * 60 * 1000

\* A token is stored and the clock is more than five minutes before its expiry.
WithinMargin(token, expiresAt, at) == token /= 0 /\ at < expiresAt - FiveMinutesMs

\* The step in which caller p enters the function: inside the margin it is
\* answered from the cache, otherwise it goes on to sign.
C2_CallStep(p) ==
    (nCalls' /= nCalls /\ lastCaller' = p) =>
        IF WithinMargin(cachedAccessToken, tokenExpiresAt, now)
        THEN /\ tpc'[p] = "done"
             /\ tRet'[p] = cachedAccessToken
             /\ tExch'[p] = 0
             /\ UNCHANGED <<cachedAccessToken, tokenExpiresAt, issued>>
        ELSE /\ tpc'[p] = "signing"
             /\ tExch'[p] = 0

\* The steps of a refresh by caller p: one token request, whose answer is
\* what is stored and returned.
C2_RefreshStep(p) ==
    /\ tExch'[p] <= 1
    /\ (tpc[p] = "signing" /\ tpc'[p] = "exchanging") => tExch'[p] = 1
    /\ (tpc[p] = "exchanging" /\ tpc'[p] = "done") =>
          /\ tExch'[p] = 1
          /\ issued' = issued + 1
          /\ tResp'[p].access_token = issued'
          /\ cachedAccessToken' = tResp'[p].access_token
          /\ tokenExpiresAt' = now + tResp'[p].expires_in * 1000
          /\ tRet'[p] = tResp'[p].access_token

\* C2: a call made while now < E - 5 minutes returns the cached token, sends
\* no token request and leaves the cached token and expiry as they are; a
\* call made once now >= E - 5 minutes (or with no token stored) signs and
\* sends exactly one token request, and when that request succeeds the token
\* and the expiry of its response are stored and the new token is returned.
C2_TokenCacheSequential ==
    [][\A p \in Callers : C2_CallStep(p) /\ C2_RefreshStep(p)]_vars

\* One caller was served from the cache, and another found a stored token
\* past its margin and replaced it.
C2_Witness ==
    \E p, q \in Callers :
        /\ tpc[p] = "done" /\ tSeen[p] = "hit" /\ tExch[p] = 0 /\ tRet[p] /= 0
        /\ tpc[q] = "done" /\ tSeen[q] = "refused" /\ tExch[q] = 1
        /\ cachedAccessToken = tRet[q]
        /\ tRet[q] > tRet[p]

\* The calls that went to the token endpoint and came back with a token.
Refreshed == { p \in Callers : tpc[p] = "done" /\ tExch[p] = 1 }

\* What holds of the cache and of the returned tokens in every state.
C12_CacheState ==
    /\ cachedAccessToken = issued
    /\ issued > 0 => tokenExpiresAt > 0
    /\ \A p \in Callers : tRet[p] /= 0 => tRet[p] \in 1..issued
    /\ \A p \in Refreshed : tRet[p] = tResp[p].access_token
    /\ \A p, q \in Refreshed : p /= q => tRet[p] /= tRet[q]

\* The step in which a refresh completes writes its own token and expiry,
\* whatever the other calls in flight have written before.
C12_LastWrite(p) ==
    (tpc[p] = "exchanging" /\ tpc'[p] = "done") =>
        /\ cachedAccessToken' = tResp'[p].access_token
        /\ tokenExpiresAt' = now + tResp'[p].expires_in * 1000
        /\ tRet'[p] = tResp'[p].access_token
        /\ \A q \in Callers \ {p} : tRet'[q] = tRet[q] /\ tpc'[q] = tpc[q]

\* C12: under any interleaving of calls that refresh at the same time, a
\* call whose exchange succeeds returns the token the endpoint issued to
\* it, the cache holds the token and expiry of the refresh that completed
\* last, the cache is never emptied, and no call returns a token that was
\* not issued.
C12_ConcurrentRefresh ==
    []C12_CacheState /\ [][\A p \in Callers : C12_LastWrite(p)]_vars

\* Two calls found the cache empty, so both refreshed at the same time;
\* both are back, each with its own token, and the cache holds the later.
C12_Witness ==
    \E p, q \in Callers :
        /\ p /= q
        /\ tSeen[p] = "empty" /\ tSeen[q] = "empty"
        /\ p \in Refreshed /\ q \in Refreshed
        /\ tRet[p] < tRet[q]
        /\ cachedAccessToken = tRet[q]

\* The stored token and the stored expiry are those of the answer r.
StoredFrom(r) ==
    /\ cachedAccessToken = r.access_token
    /\ tokenExpiresAt = r.at + r.expires_in * 1000

\* C29: in every state of the token cache, under any interleaving of
\* refreshes, the cache is either empty or holds the token of one answer of
\* the token endpoint together with the expiry computed from the expires_in
\* of that same answer.
C29_PairFromOneResponse ==
    IF tLog = <<>>
    THEN cachedAccessToken = 0 /\ tokenExpiresAt = 0
    ELSE \E i \in 1..Len(tLog) : StoredFrom(tLog[i])

\* Two refreshes were in flight together and were answered with different
\* lifetimes, the longer one first; the cache holds the token and the
\* expiry of the second.
C29_Witness ==
    /\ tImpl = "worker"
    /\ Len(tLog) = 2
    /\ tSeen = [p \in Callers |-> "empty"]
    /\ tLog[1].at + tLog[1].expires_in * 1000 > tLog[2].at + tLog[2].expires_in * 1000
    /\ StoredFrom(tLog[2])

-----------------------------------------------------------------------------
(* Claims about the worker's chat path                                     *)

\* The request got past the method check, the authentication and the
\* handleChat checks that come before routing.
ReachedRouting ==
    /\ cpc /= "idle"
    /\ req.method = "POST"
    /\ ("CLIENT_API_KEY" \in env => req.auth \in {"match", "binding"})
    /\ ("REQUIRE_CLIENT_ID" \in env => req.clientId)
    /\ aiProvider /= ""
    /\ req.body = ValidBody

\* The model is '<prefix>/<actual-model>' for the prefix pre, whatever the
\* case of its letters.
NamesPrefix(model, pre) ==
    /\ model.set
    /\ Len(model.text) > Len(pre)
    /\ ToLowerCase(SubSeq(model.text, 1, Len(pre))) = pre
    /\ model.text[Len(pre) + 1] = "/"

ActualModel(model, pre) == SubSeq(model.text, Len(pre) + 2, Len(model.text))

\* Where a request with the prefix pre may be sent.
ProviderNamedBy(pre) ==
    CASE pre \in {GeminiPrefix, VertexPrefix} ->
            {"callVertexAI", "callVertexAIStreaming", "callGeminiAPI", "callGeminiAPIStreaming"}
      [] pre \in {AzurePrefix, FoundryPrefix} -> {"azure-foundry"}
      [] pre = OpenAIPrefix -> {"openai"}
      [] pre = CloudflarePrefix -> {"cloudflare"}
      [] OTHER -> {"callVertexAnthropic"}

\* The environment holds what the provider of the prefix pre needs.
Configured(pre) ==
    CASE pre \in {GeminiPrefix, VertexPrefix} ->
            \/ "GCP_PROJECT_ID" \in env
               /\ ("VERTEX_API_KEY" \in env \/ "GCP_SERVICE_ACCOUNT_JSON" \in env)
            \/ "GEMINI_API_KEY" \in env
      [] pre \in {AzurePrefix, FoundryPrefix} ->
            {"AZURE_FOUNDRY_ENDPOINT", "AZURE_FOUNDRY_API_KEY"} \subseteq env
      [] pre = OpenAIPrefix -> "OPENAI_API_KEY" \in env
      [] pre = CloudflarePrefix -> {"CF_ACCOUNT_ID", "CF_API_TOKEN"} \subseteq env
      [] OTHER -> {"GCP_PROJECT_ID", "GCP_SERVICE_ACCOUNT_JSON"} \subseteq env

\* C3 (as stated): a chat request whose adapter call failed with an
\* AIGatewayError of status s is answered with status s and the body
\* {error: message}, and no exception leaves fetch.
C3_AdapterErrorAnswered ==
    (cpc = "done" /\ failed.kind = "AIGatewayError") =>
        /\ resp = [kind |-> "error", status |-> failed.status, error |-> failed.message]
        /\ thrown.kind = "none"

\* C4: a request whose model is '<prefix>/<actual-model>' is handed to the
\* provider the prefix names, whatever AI_PROVIDER says, with the model
\* '<actual-model>', and that is the model of the upstream request; a model
\* with no recognised prefix goes unchanged to the AI_PROVIDER adapter.
C4_PrefixRouting ==
    via.callee /= "none" =>
        IF \E pre \in Prefixes : NamesPrefix(req.model, pre)
        THEN \A pre \in Prefixes : NamesPrefix(req.model, pre) =>
                /\ via.callee \in ProviderNamedBy(pre)
                /\ via.model.text = ActualModel(req.model, pre)
                /\ \A i \in 1..Len(calls) :
                      /\ calls[i].target = via.callee
                      /\ ActualModel(req.model, pre) /= <<>> =>
                            calls[i].model = ActualModel(req.model, pre)
        ELSE /\ via.callee = aiProvider
             /\ via.model = req.model
             /\ \A i \in 1..Len(calls) : calls[i].target = aiProvider

\* 'OpenAI/gpt-4o-mini' with AI_PROVIDER=azure reached the OpenAI endpoint as
\* 'gpt-4o-mini'.
C4_Witness ==
    /\ aiProvider = "azure"
    /\ req.model.set
    /\ req.model.text = <<"O","p","e","n","A","I","/">> \o Gpt4oMini
    /\ Len(calls) = 1
    /\ calls[1].target = "openai"
    /\ calls[1].model = Gpt4oMini

ReachedValidation ==
    /\ cpc = "done"
    /\ req.method = "POST"
    /\ isAuthenticated(req, env)
    /\ ("REQUIRE_CLIENT_ID" \in env => req.clientId)
    /\ aiProvider /= ""

\* The message list is not empty, every role is a non-empty string and
\* every content a string or an array.
WellFormed(body) ==
    /\ body.kind = "object"
    /\ Len(body.messages) >= 1
    /\ \A i \in 1..Len(body.messages) :
          /\ body.messages[i].role.isString
          /\ body.messages[i].role.text /= ""
          /\ body.messages[i].content \in {"string", "array"}

\* C16 (as stated): a request handed to an adapter or sent upstream has a
\* well-formed message list, and a request whose message list is not
\* well-formed is answered 400 with no upstream call.
C16_ValidatedMessages ==
    /\ (via.callee /= "none" \/ calls /= <<>>) => WellFormed(req.body)
    /\ (ReachedValidation /\ ~WellFormed(req.body)) =>
          /\ resp.status = 400
          /\ calls = <<>>

\* A field the constructor of the adapter requires is missing from e.
RequiredMissing(type, e) ==
    CASE type = "azure" -> ~Has(e, "AZURE_ENDPOINT") \/ ~Has(e, "AZURE_API_KEY")
      [] type = "azure-foundry" ->
            ~Has(e, "AZURE_FOUNDRY_ENDPOINT") \/ ~Has(e, "AZURE_FOUNDRY_API_KEY")
      [] type = "openai" -> ~Has(e, "OPENAI_API_KEY")
      [] type = "cloudflare" -> ~Has(e, "CF_ACCOUNT_ID") \/ ~Has(e, "CF_API_TOKEN")
      [] OTHER -> ~Has(e, "GCP_PROJECT_ID") /\ ~Has(e, "GEMINI_API_KEY")

\* C13 (as stated): constructing an adapter without a field it requires
\* fails with CONFIG_ERROR, and a call of an adapter that was constructed
\* never fails with CONFIG_ERROR.
C13_ConfigErrorsAtConstruction ==
    /\ \A type \in Adapters :
          RequiredMissing(type, env) =>
              createProvider(Config(type, env)).code = "CONFIG_ERROR"
    /\ (cpc = "done" /\ via.callee \in Adapters) => failed.code /= "CONFIG_ERROR"

\* The request has ended in a failure: an error answer or a rejection.
EndedInFailure == cpc = "done" /\ (resp.kind = "error" \/ failed /= NothingThrown)

\* C17: no retry.  A request causes at most one model request to the upstream
\* and at most one request to the token endpoint, and once it has ended in a
\* failure neither count changes again.
C17_NoRetry ==
    /\ [](Len(calls) <= 1 /\ exchanges <= 1)
    /\ [][EndedInFailure => (calls' = calls /\ exchanges' = exchanges)]_vars

\* A request whose only model request, made with a freshly exchanged token,
\* was refused by the upstream.
C17_Witness ==
    /\ EndedInFailure
    /\ Len(calls) = 1
    /\ exchanges = 1
    /\ resp.status = 429

\* C18 (as stated): a failure of any step of credential acquisition fails the
\* chat call with a GatewayError: the call rejects with an AIGatewayError, or
\* one of the worker's own calls answers with an error response.
C18_CredentialFailureIsGatewayError ==
    [][TokenFails => (failed'.kind = "AIGatewayError" \/ resp'.kind = "error")]_vars

\* The adapter is configured with a service account and a project only, or
\* with an API key only.
ServiceAccountOnly(e) ==
    /\ Has(e, "GCP_SERVICE_ACCOUNT_JSON")
    /\ Has(e, "GCP_PROJECT_ID")
    /\ ~Has(e, "GEMINI_API_KEY")

ApiKeyOnly(e) ==
    /\ Has(e, "GEMINI_API_KEY")
    /\ ~(Has(e, "GCP_SERVICE_ACCOUNT_JSON") /\ Has(e, "GCP_PROJECT_ID"))

\* C19 (as stated): on chat and on chatStream alike, the Vertex adapter with a
\* service account and no API key goes for a bearer token and then calls the
\* upstream (unless the credentials fail), and with an API key it calls the
\* upstream without a token.
C19_BothAuthPaths ==
    via.callee = "vertex" =>
        /\ ServiceAccountOnly(env) =>
               \/ cpc = "token"
               \/ Len(calls) = 1
               \/ failed.message \in {"malformed key", "Token exchange failed"}
        /\ ApiKeyOnly(env) => (Len(calls) = 1 /\ exchanges = 0)

\* C20 (as stated): with CLIENT_API_KEY set, a POST whose Authorization header
\* is not 'Bearer <CLIENT_API_KEY>' is answered 401 and reaches no upstream,
\* whatever else it carries.
C20_BearerKeyRequired ==
    (Has(env, "CLIENT_API_KEY") /\ req.method = "POST" /\ req.auth /= "match"
        /\ cpc /= "received") =>
        /\ resp = errorResponse("Unauthorized", 401)
        /\ calls = <<>>
        /\ exchanges = 0

\* The providers the worker can stream from: every adapter but Cloudflare,
\* and its own Gemini calls; it has no streaming call for Claude on Vertex.
StreamsFrom(callee) == callee \notin {"cloudflare", "callVertexAnthropic", "none"}

\* The upstream answered the request's one call with success.
Served == cpc = "done" /\ Len(calls) = 1 /\ resp.kind \in {"json", "stream"}

\* C28: a served request with stream=true is answered with an event stream
\* exactly when the provider it resolved to supports streaming, and with the
\* JSON of the non-streaming call otherwise; without stream=true it is
\* answered with JSON.
C28_StreamWhenSupported ==
    Served =>
        /\ (resp = streamResponse) = (req.stream /\ StreamsFrom(via.callee))
        /\ (resp = jsonResponse) = ~(req.stream /\ StreamsFrom(via.callee))
        /\ calls[1].stream = (resp = streamResponse)

\* stream=true on Cloudflare, served as JSON.
C28_Witness ==
    /\ Served
    /\ req.stream
    /\ via.callee = "cloudflare"
    /\ resp = jsonResponse

\* handleChat ran and has answered (or rejected).
HandleChatRan ==
    /\ cpc = "done"
    /\ req.method = "POST"
    /\ isAuthenticated(req, env)

\* The request carries the client id that REQUIRE_CLIENT_ID asks for.
ClientIdOk == ~(Has(env, "REQUIRE_CLIENT_ID") /\ ~req.clientId)

\* C30 (as stated): with AI_PROVIDER unset every chat request is answered
\* 500 and reaches no upstream, whatever its model prefix; and a body that
\* fails validation is answered 400 before any provider is resolved.
C30_DefaultProviderFirstAsStated ==
    HandleChatRan =>
        /\ aiProvider = "" =>
               (resp.status = 500 /\ calls = <<>> /\ exchanges = 0)
        /\ (aiProvider /= "" /\ ~validateChatRequest(req.body)) =>
               (resp.status = 400 /\ via = NoDispatch /\ calls = <<>>)

\* C30 (amended): a request without the client id that REQUIRE_CLIENT_ID
\* asks for is answered 400 first.  Of the others, those arriving with
\* AI_PROVIDER unset are answered 500, whatever their model prefix and
\* body, and those with a body that fails validation are answered 400; none
\* of the three resolves a provider or reaches an upstream.
C30_DefaultProviderFirst ==
    HandleChatRan =>
        /\ ~ClientIdOk =>
               (resp = errorResponse("Missing x-client-id", 400) /\ via = NoDispatch)
        /\ (ClientIdOk /\ aiProvider = "") =>
               (resp.status = 500 /\ via = NoDispatch)
        /\ (ClientIdOk /\ aiProvider /= "" /\ ~validateChatRequest(req.body)) =>
               (resp.status = 400 /\ via = NoDispatch)
        /\ via = NoDispatch => (calls = <<>> /\ exchanges = 0)

\* 'openai/gpt-4o-mini' with OPENAI_API_KEY set and AI_PROVIDER unset.
C30_Witness ==
    /\ HandleChatRan
    /\ ClientIdOk
    /\ aiProvider = ""
    /\ req.model = Model(OpenAIPrefix \o <<"/">> \o Gpt4oMini)
    /\ "OPENAI_API_KEY" \in env
    /\ req.body = ValidBody
    /\ resp.status = 500

-----------------------------------------------------------------------------
(* Claims about the adapters                                               *)

C8_EmptyTextIsProviderError ==
    (aOp = "cloudflare" /\ aUp.status = 200 /\ aUp.success = "true"
        /\ aUp.response \in {"noResult", "undefined", "null", ""}) =>
        /\ aRes.kind = "error"
        /\ aRes.error.code = "PROVIDER_ERROR"

\* C9 (as stated): both Anthropic-wire conversions map stop reason
\* max_tokens to finish reason length and every other value to stop.
C9_StopReasonMapping ==
    (aOp \in {"foundry-claude", "vertex-anthropic"} /\ aRes.kind = "response") =>
        aRes.finish_reason = (IF aUp.stop_reason = "max_tokens" THEN "length" ELSE "stop")

SamplingKeys == {"max_tokens", "temperature", "top_p"}

\* The body holds the key exactly when the request sets the field, with the
\* request's value.
Forwarded(key, field) ==
    /\ key \in DOMAIN aBody <=> field.set
    /\ field.set => aBody[key] = field.value

NewerGeneration == {Gpt5Upper, O1Mini, O3, O4Mini}

-----------------------------------------------------------------------------
(* Claims about the streaming transcoders                                  *)

\* C1 (as stated): once the upstream has closed, the events emitted are
\* those emitted for the same payload arriving as one unbroken chunk,
\* whichever transcoder ran and however the payload was cut.
C1_SplitInvariance == sClosed => out = OneShot(sKind, payload)

\* C6 (as stated): when the upstream has closed, the output of every
\* transcoder holds exactly one 'data: [DONE]' event, and it is the last
\* event; before the upstream closes no such event is emitted.
C6_SingleSentinel ==
    LET dones == { i \in 1..Len(out) : out[i] = DoneEvent }
    IN  /\ ~sClosed => dones = {}
        /\ sClosed => dones = {Len(out)} /\ out /= <<>>

\* The transcoders that keep the unfinished line in a buffer
Buffering == {"anthropic", "vertexWorker", "geminiWorker"}

\* The rule a transcoder applies to a complete line
LineRule(kind, line) ==
    IF kind = "anthropic" THEN AnthropicLine(line) ELSE WorkerGeminiLine(line)

\* C21 (as stated): when the upstream closes, the line still held in the
\* buffer is transcoded by the rule for complete lines and its chunk, if
\* any, is emitted before the sentinel.
C21_FinalLineFlushed ==
    [][(sKind \in Buffering /\ ~sClosed /\ sClosed') =>
          out' = (out \o LineRule(sKind, buffer)) \o << DoneEvent >>]_vars

\* The upstream events of a payload whose every line ends with a newline
Events(bytes) == AllButLast(SplitLines(bytes))

\* The canonical chunks of one Anthropic event
EventImage(line) ==
    CASE line = Obj("D", << "x" >>) -> << DeltaChunk(<< "x" >>) >>
      [] line = Obj("D", << "m1", "m2" >>) -> << DeltaChunk(<< "E" >>) >>
      [] line = Obj("S", <<>>) -> << StopChunk >>
      [] OTHER -> <<>>

\* The upstream sent whole events only
WholeEvents == payload /= <<>> /\ payload[Len(payload)] = NL

\* C22: for an upstream of whole events, the output of
\* transformAnthropicStream is, in order, one delta chunk for every
\* content_block_delta event with text and one stop chunk for every
\* message_stop event; other events and 'data: [DONE]' lines yield nothing.
\* Before the upstream closes the output is a prefix of that image.
C22_AnthropicOrderedImage ==
    (sKind = "anthropic" /\ WholeEvents) =>
        LET image == FlatMap(EventImage, Events(payload))
        IN  IF sClosed THEN out = Append(image, DoneEvent)
            ELSE Len(out) <= Len(image) /\ out = SubSeq(image, 1, Len(out))

\* A delta event whose text holds a two-byte character, then a message_stop.
C22_Witness ==
    /\ sKind = "anthropic"
    /\ WholeEvents
    /\ sClosed
    /\ out = << DeltaChunk(<< "E" >>), StopChunk, DoneEvent >>

-----------------------------------------------------------------------------
(* Claims about one streaming call                                         *)

\* C11 (as stated): once the consumer has cancelled the stream it was
\* handed, no further upstream chunk is read, and when nothing of the call
\* is running any more the upstream body has been cancelled (or had ended).
C11_CancelStopsUpstream ==
    lOut = "cancelled" =>
        /\ lReadsAfter = 0
        /\ (lPump /= "running" => lUp \in {"cancelled", "ended"})

\* The upstream's response is one a streaming call refuses.
Refused == lResp.status /= 200 \/ ~lResp.body

\* C14: a streaming call whose upstream answers with a non-success status
\* or without a body fails before any transcoder is created: an adapter's
\* chatStream throws an AIGatewayError (the worker's own calls answer with
\* an error response), no stream is handed out, the body is never read and
\* no event is emitted.
C14_FailsBeforeTransform ==
    (lpc \in {"streaming", "failed"} /\ Refused) =>
        /\ lpc = "failed"
        /\ lRes.kind = IF lKind \in StreamingAdapters THEN "AIGatewayError"
                       ELSE "errorResponse"
        /\ lRes.status = IF lResp.status /= 200 THEN lResp.status ELSE 500
        /\ lTransform = FALSE
        /\ lOut = "none"
        /\ lUp = "none"
        /\ lEmitted = 0

\* chatStreamClaude was answered 200 without a body and threw.
C14_Witness ==
    /\ lpc = "failed"
    /\ lKind = "foundry-claude"
    /\ lResp = [status |-> 200, body |-> FALSE]
    /\ lRes.kind = "AIGatewayError"
    /\ lRes.code = "PROVIDER_ERROR"

\* C23 (as stated): the transform is pull-based.  No upstream chunk is read
\* while no read() of the consumer waits, and at most one event that the
\* consumer has not read is queued.
C23_PullBased ==
    /\ lUnasked = 0
    /\ lEmitted - lTaken <= 1

\* The model names of the catalogue that are Claude models
ClaudeModels == {Claude3, ClaudeUpper}

\* C26: AzureFoundryProvider sends a model whose name starts with 'claude',
\* in any case, on the Anthropic wire and every other model on the OpenAI
\* wire; there a max_tokens the request sets travels under
\* max_completion_tokens for the gpt-5, o1, o3 and o4 models and under
\* max_tokens for the others, and the two keys are never both present.
C26_WireAndTokenKey ==
    aOp \in {"foundry-claude", "foundry-openai"} =>
        LET model == ResolvedModel("azure-foundry")
            keys  == DOMAIN aBody
        IN  /\ (aOp = "foundry-claude") = (model \in ClaudeModels)
            /\ aOp = "foundry-openai" =>
                   /\ ~({"max_tokens", "max_completion_tokens"} \subseteq keys)
                   /\ aReq.max_tokens.set =>
                          IF model \in NewerGeneration
                          THEN /\ "max_completion_tokens" \in keys
                               /\ "max_tokens" \notin keys
                               /\ aBody["max_completion_tokens"] = aReq.max_tokens.value
                          ELSE /\ "max_tokens" \in keys
                               /\ "max_completion_tokens" \notin keys
                               /\ aBody["max_tokens"] = aReq.max_tokens.value

\* 'Claude-3' went out on the Anthropic wire.
C26_Witness ==
    /\ aOp = "foundry-claude"
    /\ aReq.model = Model(ClaudeUpper)
    /\ aReq.max_tokens = Set(100)

\* The Gemini name of a sampling parameter
GeminiKey(key) ==
    CASE key = "max_tokens" -> "maxOutputTokens"
      [] key = "top_p" -> "topP"
      [] OTHER -> key

\* C27 (as stated): on every Gemini path the body holds a generationConfig
\* exactly when one of max_tokens, temperature, top_p is set (0 included),
\* and the object then holds each set parameter under its Gemini name and
\* no key for an unset one.
C27_GenerationConfig ==
    aOp \in {"vertex", "callVertexAI", "callGeminiAPI"} =>
        LET given == { k \in SamplingKeys : aReq[k].set }
        IN  /\ ("generationConfig" \in DOMAIN aBody) = (given /= {})
            /\ given /= {} =>
                   /\ DOMAIN aBody["generationConfig"] = { GeminiKey(k) : k \in given }
                   /\ \A k \in given :
                          aBody["generationConfig"][GeminiKey(k)] = aReq[k].value

-----------------------------------------------------------------------------
(* Claims about request translation and error classification               *)

UserOrAssistant(m) == m.role \in {"user", "assistant"}

\* C24 (as stated): on both Anthropic paths the forwarded list holds the
\* user and assistant messages only, under their own roles and in their
\* order, each content flattened to a string; the system field is present
\* exactly when the request has a system message, and carries one.
C24_AnthropicTranslation ==
    mOp \in {"foundry-claude", "vertex-anthropic"} =>
        LET kept == SelectSeq(mIn, UserOrAssistant)
        IN  /\ mOut = [i \in 1..Len(kept) |->
                          [role |-> kept[i].role, content |-> Flatten(kept[i].content)]]
            /\ mSystem.set = (\E i \in 1..Len(mIn) : mIn[i].role = "system")
            /\ mSystem.set =>
                   \E i \in 1..Len(mIn) :
                      /\ mIn[i].role = "system"
                      /\ mSystem.content = Flatten(mIn[i].content)

\* C25: an error made without an explicit code gets its code from the
\* status (401 and 403 AUTHENTICATION_ERROR, 429 RATE_LIMIT_ERROR, 500 and
\* above PROVIDER_ERROR, and one code for every other status); an explicit
\* code is kept whatever the status; the error carries the status, the
\* provider's name and the raw body.
C25_ErrorClassification ==
    eOp \in {"fromStatus", "withCode"} =>
        /\ eErr.kind = "AIGatewayError"
        /\ eErr.code \in ErrorCodes
        /\ eIn.code /= "" => eErr.code = eIn.code
        /\ eIn.code = "" =>
               /\ eIn.status \in {401, 403} => eErr.code = "AUTHENTICATION_ERROR"
               /\ eIn.status = 429 => eErr.code = "RATE_LIMIT_ERROR"
               /\ eIn.status >= 500 => eErr.code = "PROVIDER_ERROR"
        /\ eIn.status /= 0 => eErr.status = eIn.status
        /\ eErr.provider = eIn.provider
        /\ eErr.raw = eIn.raw

\* An upstream 403 wrapped without a code.
C25_Witness ==
    /\ eOp = "fromStatus"
    /\ eIn.status = 403
    /\ eIn.raw = "quota exceeded"
    /\ eErr.code = "AUTHENTICATION_ERROR"

-----------------------------------------------------------------------------
(* Claims about the usage block                                            *)

\* A count that is a number
Known(field) == field.set /\ field.value >= 0

\* C15 (as stated): a converted response that carries a usage whose three
\* counts are known has total_tokens = prompt_tokens + completion_tokens.
C15_UsageTotals ==
    (/\ uRes.kind = "response"
     /\ uRes.usage.present
     /\ Known(uRes.usage.prompt_tokens)
     /\ Known(uRes.usage.completion_tokens)
     /\ Known(uRes.usage.total_tokens)) =>
        uRes.usage.total_tokens.value =
            uRes.usage.prompt_tokens.value + uRes.usage.completion_tokens.value

=============================================================================
